---------------------------- MODULE Spec2Model ----------------------------
(***************************************************************************)
(* A model of the WebSocket client runtime of src/src/ClientApp.h:         *)
(*   - the frame codec (WebSocketFrame): encodeToBuffer / encode,          *)
(*     decodeZeroCopy / decode, getEncodedSize, applyMaskSIMD;             *)
(*   - the connection (ClientWebSocket) and its owner (ClientApp);         *)
(*   - the connection pool of src/examples/PooledClient.h                  *)
(*     (WebSocketClient and its static WebSocketManager);                  *)
(* and of the HTTP client of src/src/HttpClient.h (HttpClient,             *)
(* processHttpRequests, HttpClientPool and its static HttpManager).        *)
(* Bytes are the integers 0..255; a buffer is a sequence of bytes and the  *)
(* C++ index i of a buffer is the sequence index i + 1.                    *)
(***************************************************************************)
EXTENDS Integers, Sequences, FiniteSets, TLC

VARIABLES
    cpc,       \* codec harness: "input", "encoded", "decoded" ("idle": not in use)
    cin,       \* codec harness: the arguments of encode and the build flavour
    cframe,    \* codec harness: the bytes returned by encode
    csize,     \* codec harness: the size of the encoded frame
    ccut,      \* codec harness: the size handed to decode
    cdec,      \* codec harness: what decode returned
    ssl,       \* ClientApp<SSL>: the template parameter
    alive,     \* the ClientApp has not been destroyed
    parsedUrl, \* ClientApp::parsedUrl
    webSocket, \* ClientApp::webSocket: <<>> (nullptr) or <<the connection>>
    lastCall,  \* the latest connect() / handleHttpResponse(): its argument and
               \* the callbacks (open, failed) it fired, in order
    now,       \* std::chrono::steady_clock::now(), in milliseconds
    manager,   \* WebSocketClient::manager, the static WebSocketManager
    handles,   \* the indexes of the WebSocketClient objects that exist
    callers,   \* the application threads: where each is in its pool call
    loop,      \* the thread running WebSocketManager::eventLoop
    proc,      \* the process: "up", "terminated" (std::terminate) or "crashed"
    httpManager,      \* HttpClientPool::manager, the static HttpManager
    pending_requests, \* pending_requests: the requests in it, in list order
    requests,  \* the HttpRequest calls made so far: the caller's position, the
               \* HttpClient, the promise and the peer's end of the socket
    httpLoop,  \* the thread running HttpManager::eventLoop
    seconds    \* std::chrono::high_resolution_clock::now(), in seconds

codecVars == <<cpc, cin, cframe, csize, ccut, cdec>>

connVars == <<ssl, alive, parsedUrl, webSocket, lastCall>>

\* The variables that neither the codec harness nor the ClientApp writes.
poolVars == <<manager, handles, callers, loop, proc>>

httpVars == <<httpManager, pending_requests, requests, httpLoop, seconds>>

otherVars == <<now, manager, handles, callers, loop, proc, httpVars>>

vars == <<cpc, cin, cframe, csize, ccut, cdec, ssl, alive, parsedUrl, webSocket, lastCall,
          now, manager, handles, callers, loop, proc,
          httpManager, pending_requests, requests, httpLoop, seconds>>

(***************************************************************************)
(* Bounds of the model.                                                    *)
(***************************************************************************)
\* Patterned payloads of every length 0..MaxLen are encoded.
MaxLen == 49
\* Every byte sequence over ByteAlphabet of length 0..MaxEnumLen is encoded.
MaxEnumLen == 2
\* Prefixes of a frame of every size 0..MaxHeadCut are decoded.
MaxHeadCut == 15
\* A connection receives at most MaxFrames frames.
MaxFrames == 3
\* A connection takes send() calls while it has written fewer than MaxSent
\* times to its socket.
MaxSent == 1
\* Under SpecSendState, while it has written fewer than MaxStateSent times.
MaxStateSent == 2
\* The clock runs from 0 to MaxTime milliseconds.
MaxTime == 3
\* Messages of every size 0..MaxSmallSend are sent, besides the sizes around
\* the fragmentation threshold.
MaxSmallSend == 50

(***************************************************************************)
(* Program constants.                                                      *)
(***************************************************************************)
\* enum WebSocketFrame::OpCode
CONTINUATION == 0
TEXT == 1
BINARY == 2
CLOSE == 8
PING == 9
PONG == 10
\* the largest payload length of the 7-bit form and of the 16-bit form
Len7Max == 125
Len16Max == 65535
\* send(): const size_t maxFrameSize
MaxFrameSize == 32768

OpCodes == {CONTINUATION, TEXT, BINARY, CLOSE, PING, PONG}

\* The compile-time choice of applyMaskSIMD's chunked loops.
Builds == {"scalar", "sse2", "avx2"}

(***************************************************************************)
(* Byte arithmetic.                                                        *)
(***************************************************************************)
RECURSIVE BitXor(_, _, _)
\* a ^ b on the low n bits
BitXor(a, b, n) ==
    IF n = 0 THEN 0
    ELSE (((a % 2) + (b % 2)) % 2) + (2 * BitXor(a \div 2, b \div 2, n - 1))

\* unsigned char ^ unsigned char
Xor8(a, b) == BitXor(a, b, 8)

RECURSIVE ShiftRightBytes(_, _)
\* x >> (8 * k)
ShiftRightBytes(x, k) == IF k = 0 THEN x ELSE ShiftRightBytes(x \div 256, k - 1)

\* buffer[i] with the C++ (0-based) index; a read outside the buffer yields
\* no byte (-1).
At(buf, i) == IF 0 <= i /\ i < Len(buf) THEN buf[i + 1] ELSE -1

Min(a, b) == IF a <= b THEN a ELSE b

(***************************************************************************)
(* WebSocketFrame                                                          *)
(***************************************************************************)
GetEncodedSize(payloadSize) ==
    LET base == 2
        ext == IF payloadSize <= Len7Max THEN 0
               ELSE IF payloadSize <= Len16Max THEN 2
               ELSE 8
    IN  base + ext + 4 + payloadSize

\* The lanes in argument order, as _mm_setr_epi8 would fill them.
SetEpi8Forward(args) == args

\* _mm_set_epi8 / _mm256_set_epi8: the arguments are given from the highest
\* lane down, so lane j of the register is the (n - j)-th argument.
SetEpi8(args) == [j \in 1..Len(args) |-> args[Len(args) + 1 - j]]

\* The argument list mask[3], mask[2], mask[1], mask[0], ... of n bytes.
MaskArgs(mask, n) == [a \in 1..n |-> mask[4 - ((a - 1) % 4)]]

ApplyMaskSIMD(input, length, mask, build) ==
    LET n32 == IF build = "avx2" THEN (length \div 32) * 32 ELSE 0
        n16 == IF build \in {"avx2", "sse2"}
               THEN n32 + ((length - n32) \div 16) * 16 ELSE n32
        n4 == n16 + ((length - n16) \div 4) * 4
        mask256 == SetEpi8(MaskArgs(mask, 32))
        mask128 == SetEpi8(MaskArgs(mask, 16))
    IN  [p \in 1..length |->
            LET i == p - 1
            IN  IF i < n32 THEN Xor8(input[p], mask256[(i % 32) + 1])
                ELSE IF i < n16 THEN Xor8(input[p], mask128[((i - n32) % 16) + 1])
                ELSE IF i < n4 THEN Xor8(input[p], mask[((i - n16) % 4) + 1])
                ELSE Xor8(input[p], mask[(i % 4) + 1])]

\* encodeToBuffer's header with the 7-bit form ending one length early.
EncodeHeaderTierSlip(length, opCode, fin, maskKey) ==
    <<(IF fin THEN 128 ELSE 0) + opCode>>
    \o (IF length < Len7Max THEN <<length + 128>>
        ELSE IF length <= Len16Max
             THEN <<126 + 128, ShiftRightBytes(length, 1) % 256, length % 256>>
        ELSE <<127 + 128>> \o [k \in 1..8 |-> ShiftRightBytes(length, 8 - k) % 256])
    \o maskKey

\* The header bytes of encodeToBuffer: FIN + opcode, MASK + length, the
\* extended length, the masking key.
EncodeHeader(length, opCode, fin, maskKey) ==
    LET first == (IF fin THEN 128 ELSE 0) + opCode
        lenBytes ==
            IF length <= Len7Max THEN <<length + 128>>
            ELSE IF length <= Len16Max
                 THEN <<126 + 128, ShiftRightBytes(length, 1) % 256, length % 256>>
            ELSE <<127 + 128>> \o
                 [k \in 1..8 |-> ShiftRightBytes(length, 8 - k) % 256]
    IN  <<first>> \o lenBytes \o maskKey

\* encodeToBuffer: size is the returned value (0: the buffer is too small),
\* bytes are the bytes written from the start of the buffer.
EncodeToBuffer(message, opCode, fin, bufferSize, maskKey, build) ==
    LET requiredSize == GetEncodedSize(Len(message))
    IN  IF requiredSize > bufferSize THEN [size |-> 0, bytes |-> <<>>]
        ELSE [size |-> requiredSize,
              bytes |-> EncodeHeader(Len(message), opCode, fin, maskKey)
                        \o ApplyMaskSIMD(message, Len(message), maskKey, build)]

\* encode: a zero-filled string of getEncodedSize bytes, written by
\* encodeToBuffer and resized to the size it returned; maskKey is the key
\* generateMaskKey drew.
Encode(message, opCode, fin, maskKey, build) ==
    LET size == GetEncodedSize(Len(message))
        r == EncodeToBuffer(message, opCode, fin, size, maskKey, build)
    IN  [p \in 1..r.size |-> IF p <= Len(r.bytes) THEN r.bytes[p] ELSE 0]

NoFrame == [ok |-> FALSE, opCode |-> 0, fin |-> FALSE, payloadOffset |-> 0,
            payloadLength |-> 0, masked |-> FALSE, maskOffset |-> 0]

\* The last check of decodeZeroCopy with the mask key not counted.
PayloadAvailableNoKey(size, headerSize, length) == size >= headerSize - 4 + length

\* The last check of decodeZeroCopy: the whole payload is in the buffer.
PayloadAvailable(size, headerSize, length) == size >= headerSize + length

\* decodeZeroCopy(data, size): ok is the returned bool, the other fields the
\* out-parameters (outMask is data + maskOffset when masked, else nullptr).
DecodeZeroCopy(data, size) ==
    IF size < 2 THEN NoFrame
    ELSE
    LET firstByte == At(data, 0)
        secondByte == At(data, 1)
        fin == firstByte >= 128
        opCode == firstByte % 16
        masked == secondByte >= 128
        len7 == secondByte % 128
    IN  IF len7 = 126 /\ size < 4 THEN NoFrame
        ELSE IF len7 = 127 /\ size < 10 THEN NoFrame
        ELSE
        LET length ==
                IF len7 = 126 THEN At(data, 2) * 256 + At(data, 3)
                ELSE IF len7 = 127
                     THEN LET RECURSIVE Acc(_)
                              Acc(n) == IF n = 0 THEN 0
                                        ELSE Acc(n - 1) * 256 + At(data, 2 + n - 1)
                          IN  Acc(8)
                ELSE len7
            lenSize == IF len7 = 126 THEN 4 ELSE IF len7 = 127 THEN 10 ELSE 2
        IN  IF masked /\ size < lenSize + 4 THEN NoFrame
            ELSE
            LET headerSize == IF masked THEN lenSize + 4 ELSE lenSize
            IN  IF ~PayloadAvailable(size, headerSize, length) THEN NoFrame
                ELSE [ok |-> TRUE, opCode |-> opCode, fin |-> fin,
                      payloadOffset |-> headerSize, payloadLength |-> length,
                      masked |-> masked, maskOffset |-> lenSize]

\* The unmasking loop with the key index one ahead.
UnmaskKeyAhead(data, d) ==
    [p \in 1..d.payloadLength |->
        IF d.masked
        THEN Xor8(At(data, d.payloadOffset + p - 1), At(data, d.maskOffset + (p % 4)))
        ELSE At(data, d.payloadOffset + p - 1)]

\* The unmasking loop shared by decode and handleFrameFragmented:
\* payload[i] ^ mask[i % 4], or the bytes as they are without a mask.
Unmask(data, d) ==
    [p \in 1..d.payloadLength |->
        IF d.masked
        THEN Xor8(At(data, d.payloadOffset + p - 1),
                  At(data, d.maskOffset + ((p - 1) % 4)))
        ELSE At(data, d.payloadOffset + p - 1)]

\* decode(data, size, outMessage, outOpCode, outFin)
Decode(data, size) ==
    LET d == DecodeZeroCopy(data, size)
    IN  IF ~d.ok THEN [ok |-> FALSE, opCode |-> 0, fin |-> FALSE, message |-> <<>>]
        ELSE [ok |-> TRUE, opCode |-> d.opCode, fin |-> d.fin,
              message |-> Unmask(data, d)]

(***************************************************************************)
(* ParsedUrl.  A URL is a sequence of one-character strings.               *)
(***************************************************************************)
RECURSIVE Find(_, _, _)
\* url.find(ch, start): the first index >= start holding ch, or -1 (npos)
Find(url, ch, start) ==
    IF start >= Len(url) THEN -1
    ELSE IF url[start + 1] = ch THEN start
    ELSE Find(url, ch, start + 1)

\* url.substr(pos, n)
Substr(url, pos, n) == SubSeq(url, pos + 1, Min(pos + n, Len(url)))

\* ParsedUrl::parse, had it taken the first ':' after the scheme as the port
\* separator wherever it stands.
ParseColonAnywhere(url, uninit) ==
    LET isWss == Len(url) >= 6 /\ Substr(url, 0, 6) = <<"w", "s", "s", ":", "/", "/">>
        isWs == Len(url) >= 5 /\ Substr(url, 0, 5) = <<"w", "s", ":", "/", "/">>
    IN  IF ~isWss /\ ~isWs
        THEN [host |-> <<>>, port |-> <<>>, path |-> <<>>, ssl |-> uninit]
        ELSE
        LET start == IF isWss THEN 6 ELSE 5
            colonPos == Find(url, ":", start)
            slashPos == Find(url, "/", start)
            hasPort == colonPos # -1
            portEnd == IF slashPos # -1 THEN slashPos ELSE Len(url)
        IN  [host |-> IF hasPort THEN Substr(url, start, colonPos - start)
                      ELSE Substr(url, start, portEnd - start),
             port |-> IF hasPort THEN Substr(url, colonPos + 1, portEnd - colonPos - 1)
                      ELSE IF isWss THEN <<"4", "4", "3">> ELSE <<"8", "0">>,
             path |-> IF slashPos # -1 THEN Substr(url, slashPos, Len(url)) ELSE <<"/">>,
             ssl |-> isWss]

\* ParsedUrl::parse.  The ssl field of the result is left uninitialised when
\* the URL has neither prefix: uninit is the value it then happens to hold.
Parse(url, uninit) ==
    LET isWss == Len(url) >= 6 /\ Substr(url, 0, 6) = <<"w", "s", "s", ":", "/", "/">>
        isWs == Len(url) >= 5 /\ Substr(url, 0, 5) = <<"w", "s", ":", "/", "/">>
    IN  IF ~isWss /\ ~isWs
        THEN [host |-> <<>>, port |-> <<>>, path |-> <<>>, ssl |-> uninit]
        ELSE
        LET start == IF isWss THEN 6 ELSE 5
            colonPos == Find(url, ":", start)
            slashPos == Find(url, "/", start)
            hasPort == colonPos # -1 /\ (slashPos = -1 \/ colonPos < slashPos)
            portEnd == IF slashPos # -1 THEN slashPos ELSE Len(url)
        IN  [host |-> IF hasPort THEN Substr(url, start, colonPos - start)
                      ELSE Substr(url, start, portEnd - start),
             port |-> IF hasPort THEN Substr(url, colonPos + 1, portEnd - colonPos - 1)
                      ELSE IF isWss THEN <<"4", "4", "3">> ELSE <<"8", "0">>,
             path |-> IF slashPos # -1 THEN Substr(url, slashPos, Len(url)) ELSE <<"/">>,
             ssl |-> isWss]

(***************************************************************************)
(* ClientWebSocket.  A connection is a record of the object's fields and   *)
(* of what it did to its surroundings:                                     *)
(*   opens, messages, closes  the open / message / close callbacks it      *)
(*                            fired, in order;                             *)
(*   sent                     the byte blocks flushSendBuffer wrote;       *)
(*   received                 the number of appendReceiveData calls;       *)
(*   origin                   the close that took it from CONNECTED to     *)
(*                            CLOSING, if any;                             *)
(*   ref                      what a reference reassembly of the frames    *)
(*                            received so far has delivered (RefStep);     *)
(*   aliveSeen                the latest isAlive call: its timeout, the    *)
(*                            time since the last Pong and its result;     *)
(*   sendSeen                 the latest send of a patterned message: its  *)
(*                            size, its opcode and what send returned;     *)
(*   inbound, taken           where the peer's byte stream is followed:    *)
(*                            the bytes the peer has written to the socket *)
(*                            and how many of them the reads have passed   *)
(*                            to appendReceiveData.                        *)
(* Handlers that send take nk, the key the next generateMaskKey call draws.*)
(***************************************************************************)
\* The chunking applyMaskSIMD is compiled with in the connection's build.
Build == "sse2"

ClientShutdown ==
    <<67, 108, 105, 101, 110, 116, 32, 115, 104, 117, 116, 100, 111, 119, 110>>

UnexpectedContinuation ==
    <<85, 110, 101, 120, 112, 101, 99, 116, 101, 100, 32, 99, 111, 110, 116, 105,
      110, 117, 97, 116, 105, 111, 110, 32, 102, 114, 97, 109, 101>>

FragmentNotFinished ==
    <<70, 114, 97, 103, 109, 101, 110, 116, 32, 110, 111, 116, 32, 102, 105, 110,
      105, 115, 104, 101, 100>>

\* The reference reassembly of a frame sequence: no frame seen yet.
RefInit == [bad |-> FALSE, active |-> FALSE, opCode |-> 0, buf |-> <<>>, out |-> <<>>]

\* The reference reassembly after one more frame f.  A sequence is badly
\* sequenced (bad) once a Continuation comes with no fragment open, another
\* frame comes with a fragment open, or a control frame is not final.
RefStep(r, f) ==
    IF r.bad THEN r
    ELSE IF f.opCode = CONTINUATION
    THEN IF ~r.active THEN [r EXCEPT !.bad = TRUE]
         ELSE IF f.fin
         THEN [r EXCEPT !.active = FALSE, !.buf = <<>>,
                        !.out = Append(@, [payload |-> r.buf \o f.payload,
                                           opCode |-> r.opCode])]
         ELSE [r EXCEPT !.buf = @ \o f.payload]
    ELSE IF r.active \/ (~f.fin /\ f.opCode \notin {TEXT, BINARY})
    THEN [r EXCEPT !.bad = TRUE]
    ELSE IF ~f.fin
    THEN [r EXCEPT !.active = TRUE, !.opCode = f.opCode, !.buf = f.payload]
    ELSE IF f.opCode \in {TEXT, BINARY}
    THEN [r EXCEPT !.out = Append(@, [payload |-> f.payload, opCode |-> f.opCode])]
    ELSE r

\* ClientWebSocket(behavior): state = CLOSED, connected = false, empty
\* buffers, a first mask key; fragmentOpCode is not initialised (-1) and is
\* never read before it is written.
NewWebSocket(key) ==
    [state |-> "CLOSED", connected |-> FALSE,
     sendBuffer |-> <<>>, receiveBuffer |-> <<>>, readOffset |-> 0,
     currentMask |-> key,
     fragmentBuffer |-> <<>>, fragmentOpCode |-> -1, inFragment |-> FALSE,
     opens |-> 0, messages |-> <<>>, closes |-> <<>>, sent |-> <<>>,
     lastPongTime |-> now,
     received |-> 0, origin |-> <<>>, ref |-> RefInit, aliveSeen |-> <<>>,
     sendSeen |-> <<>>, inbound |-> <<>>, taken |-> 0]

\* setConnected(true): connected, state = CONNECTED, behavior->open(this)
SetConnected(c) ==
    [c EXCEPT !.connected = TRUE, !.state = "CONNECTED", !.opens = @ + 1]

\* flushSendBuffer: the simulated write of the whole send buffer
FlushSendBuffer(c) ==
    IF c.sendBuffer = <<>> THEN [c |-> c, ok |-> TRUE]
    ELSE [c |-> [c EXCEPT !.sent = Append(@, c.sendBuffer), !.sendBuffer = <<>>],
          ok |-> TRUE]

\* sendFrame once encodeToBuffer has returned r: revert on actualSize 0,
\* else keep the actualSize bytes, draw the next key, flush.
SendEncoded(c, r, nk) ==
    IF r.size = 0 THEN [c |-> c, ok |-> FALSE]
    ELSE FlushSendBuffer(
             [c EXCEPT !.sendBuffer =
                           @ \o [p \in 1..r.size |->
                                    IF p <= Len(r.bytes) THEN r.bytes[p] ELSE 0],
                       !.currentMask = nk])

\* sendFrame: encode into the send buffer with currentMask, then the above.
SendFrame(c, message, opCode, fin, nk) ==
    SendEncoded(c,
                EncodeToBuffer(message, opCode, fin, GetEncodedSize(Len(message)),
                               c.currentMask, Build),
                nk)

RECURSIVE SendFragmentsAllFinal(_, _, _, _, _, _)
\* The fragmenting loop of send() with fin set on every frame.
SendFragmentsAllFinal(c, message, opCode, offset, isFirst, nk) ==
    IF offset >= Len(message) THEN [c |-> c, ok |-> TRUE]
    ELSE SendFragmentsAllFinal(
             SendFrame(c,
                       SubSeq(message, offset + 1,
                              offset + Min(MaxFrameSize, Len(message) - offset)),
                       IF isFirst THEN opCode ELSE CONTINUATION, TRUE, nk).c,
             message, opCode, offset + Min(MaxFrameSize, Len(message) - offset),
             FALSE, nk)

RECURSIVE SendFragments(_, _, _, _, _, _)
\* The fragmenting loop of send(), at the given offset.
SendFragments(c, message, opCode, offset, isFirst, nk) ==
    IF offset >= Len(message) THEN [c |-> c, ok |-> TRUE]
    ELSE
    LET chunkSize == Min(MaxFrameSize, Len(message) - offset)
        chunk == SubSeq(message, offset + 1, offset + chunkSize)
        frameOpCode == IF isFirst THEN opCode ELSE CONTINUATION
        fin == (offset + chunkSize) >= Len(message)
        r == SendFrame(c, chunk, frameOpCode, fin, nk)
    IN  IF ~r.ok THEN [c |-> r.c, ok |-> FALSE]
        ELSE SendFragments(r.c, message, opCode, offset + chunkSize, FALSE, nk)

\* send() that looks at the state only for data frames.
SendUnguarded(c, message, opCode, nk) ==
    IF c.state # "CONNECTED" /\ opCode \in {CONTINUATION, TEXT, BINARY}
    THEN [c |-> c, ok |-> FALSE]
    ELSE IF Len(message) <= MaxFrameSize THEN SendFrame(c, message, opCode, TRUE, nk)
    ELSE SendFragments(c, message, opCode, 0, TRUE, nk)

\* send(message, opCode)
Send(c, message, opCode, nk) ==
    IF c.state # "CONNECTED" THEN [c |-> c, ok |-> FALSE]
    ELSE IF Len(message) <= MaxFrameSize THEN SendFrame(c, message, opCode, TRUE, nk)
    ELSE SendFragments(c, message, opCode, 0, TRUE, nk)

\* The two bytes close() appends for the code: the uint16
\* (code >> 8) | (code << 8) as it lies in memory (low byte first).
NetworkCodeBytes(code) ==
    LET networkCode == ((code \div 256) + ((code % 256) * 256)) % 65536
    IN  <<networkCode % 256, networkCode \div 256>>

\* close() that fires the callback whatever the state.
CloseFiresAgain(c, code, message, nk) ==
    IF c.state = "CONNECTED"
    THEN [c EXCEPT !.state = "CLOSING",
                   !.origin = <<[code |-> code, reason |-> message]>>]
    ELSE [c EXCEPT !.state = "CLOSED", !.connected = FALSE,
                   !.closes = Append(@, [code |-> code, reason |-> message])]

\* close(code, message)
Close(c, code, message, nk) ==
    IF c.state = "CONNECTED"
    THEN Send([c EXCEPT !.state = "CLOSING",
                        !.origin = <<[code |-> code, reason |-> message]>>],
              NetworkCodeBytes(code) \o message, CLOSE, nk).c
    ELSE IF c.state = "CLOSING"
    THEN [c EXCEPT !.state = "CLOSED", !.connected = FALSE,
                   !.closes = Append(@, [code |-> code, reason |-> message])]
    ELSE c

\* payload[i] ^ mask[i % 4] from index `from` of the key on; mask <<>> is
\* the null pointer: the bytes as they are.
UnmaskPayload(payload, mask, from) ==
    IF mask = <<>> THEN payload
    ELSE [p \in 1..Len(payload) |-> Xor8(payload[p], mask[((p - 1 + from) % 4) + 1])]

\* handleFrame that answers a Ping with an empty Pong.
HandleFramePongEmpty(c, opCode, payload, mask, nk) ==
    IF opCode \in {TEXT, BINARY}
    THEN [c EXCEPT !.messages =
                       Append(@, [payload |-> UnmaskPayload(payload, mask, 0),
                                  opCode |-> opCode])]
    ELSE IF opCode = CLOSE
    THEN Close(c, IF Len(payload) >= 2 THEN payload[1] * 256 + payload[2] ELSE 1000,
               IF Len(payload) > 2 THEN SubSeq(payload, 3, Len(payload)) ELSE <<>>, nk)
    ELSE IF opCode = PING
    THEN Send(c, <<>>, PONG, nk).c
    ELSE c

\* handleFrame that reads the close code with the low byte first.
HandleFrameCodeSwapped(c, opCode, payload, mask, nk) ==
    IF opCode \in {TEXT, BINARY}
    THEN [c EXCEPT !.messages =
                       Append(@, [payload |-> UnmaskPayload(payload, mask, 0),
                                  opCode |-> opCode])]
    ELSE IF opCode = CLOSE
    THEN LET raw == IF Len(payload) >= 2 THEN payload[2] * 256 + payload[1] ELSE 1000
             closeCode ==
                 IF Len(payload) >= 2 /\ mask # <<>>
                 THEN Xor8(payload[2], mask[2]) * 256 + Xor8(payload[1], mask[1])
                 ELSE raw
             closeMessage ==
                 IF Len(payload) > 2
                 THEN UnmaskPayload(SubSeq(payload, 3, Len(payload)), mask, 2)
                 ELSE <<>>
         IN  Close(c, closeCode, closeMessage, nk)
    ELSE IF opCode = PING
    THEN Send(c, UnmaskPayload(payload, mask, 0), PONG, nk).c
    ELSE IF opCode = PONG
    THEN [c EXCEPT !.lastPongTime = now]
    ELSE c

\* handleFrame(opCode, fin, payload, length, mask)
HandleFrame(c, opCode, payload, mask, nk) ==
    IF opCode \in {TEXT, BINARY}
    THEN [c EXCEPT !.messages =
                       Append(@, [payload |-> UnmaskPayload(payload, mask, 0),
                                  opCode |-> opCode])]
    ELSE IF opCode = CLOSE
    THEN LET raw == IF Len(payload) >= 2 THEN payload[1] * 256 + payload[2] ELSE 1000
             closeCode ==
                 IF Len(payload) >= 2 /\ mask # <<>>
                 THEN Xor8(payload[1], mask[1]) * 256 + Xor8(payload[2], mask[2])
                 ELSE raw
             closeMessage ==
                 IF Len(payload) > 2
                 THEN UnmaskPayload(SubSeq(payload, 3, Len(payload)), mask, 2)
                 ELSE <<>>
         IN  Close(c, closeCode, closeMessage, nk)
    ELSE IF opCode = PING
    THEN Send(c, UnmaskPayload(payload, mask, 0), PONG, nk).c
    ELSE IF opCode = PONG
    THEN [c EXCEPT !.lastPongTime = now]
    ELSE c

\* isAlive(timeoutMs): timeSincePong.count() < timeoutMs
IsAlive(c, timeoutMs) == (now - c.lastPongTime) < timeoutMs

\* handleCompleteMessage
HandleCompleteMessage(c, opCode, message, nk) ==
    HandleFrame(c, opCode, message, <<>>, nk)

\* The fragment buffer overwritten by the continuation's payload.
FragmentOverwrite(c, message) == [c EXCEPT !.fragmentBuffer = message]

\* fragmentBuffer.insert(fragmentBuffer.end(), message.begin(), message.end())
FragmentAppend(c, message) == [c EXCEPT !.fragmentBuffer = @ \o message]

\* handleFrameFragmented that takes an unexpected frame as the start of a
\* message instead of refusing it.
FragmentStoreLenient(c, opCode, fin, message, nk) ==
    IF opCode = CONTINUATION /\ c.inFragment
    THEN [c |-> [c EXCEPT !.fragmentBuffer = @ \o message],
          returned |-> FALSE, ok |-> TRUE]
    ELSE [c |-> [c EXCEPT !.inFragment = IF fin THEN FALSE ELSE TRUE,
                          !.fragmentOpCode = IF opCode = CONTINUATION THEN TEXT
                                             ELSE opCode,
                          !.fragmentBuffer = message],
          returned |-> ~fin, ok |-> TRUE]

\* handleFrameFragmented up to its last if: the unmasked message goes to
\* the fragment buffer, or the frame is refused.  returned says that the
\* function has returned, ok with what.
FragmentStore(c, opCode, fin, message, nk) ==
    IF opCode = CONTINUATION
    THEN IF ~c.inFragment
         THEN [c |-> Close(c, 1002, UnexpectedContinuation, nk),
               returned |-> TRUE, ok |-> FALSE]
         ELSE [c |-> FragmentAppend(c, message), returned |-> FALSE, ok |-> TRUE]
    ELSE IF c.inFragment
         THEN [c |-> Close(c, 1002, FragmentNotFinished, nk),
               returned |-> TRUE, ok |-> FALSE]
         ELSE [c |-> [c EXCEPT !.inFragment = IF fin THEN @ ELSE TRUE,
                               !.fragmentOpCode = opCode,
                               !.fragmentBuffer = message],
               returned |-> ~fin, ok |-> TRUE]

\* handleFrameFragmented's last if: on fin the message is complete
FragmentDeliver(r, fin, nk) ==
    IF r.returned \/ ~fin THEN [c |-> r.c, ok |-> r.ok]
    ELSE [c |-> [HandleCompleteMessage([r.c EXCEPT !.inFragment = FALSE],
                                       r.c.fragmentOpCode, r.c.fragmentBuffer, nk)
                 EXCEPT !.fragmentBuffer = <<>>],
          ok |-> TRUE]

\* handleFrameFragmented: ok is the returned bool
HandleFrameFragmented(c, opCode, fin, payload, mask, nk) ==
    FragmentDeliver(FragmentStore(c, opCode, fin, UnmaskPayload(payload, mask, 0), nk),
                    fin, nk)

RECURSIVE ProcessFrames(_, _, _)
\* A loop that steps over the frame that handleFrameFragmented refused.
FrameHandledSkipping(r, offset, next, nk) ==
    IF ~r.ok THEN [c |-> r.c, offset |-> next]
    ELSE ProcessFrames(r.c, next, nk)

\* The loop of processReceiveBuffer once handleFrameFragmented has returned
\* r for the frame at offset: break, or go on at the next frame.
FrameHandled(r, offset, next, nk) ==
    IF ~r.ok THEN [c |-> r.c, offset |-> offset]
    ELSE ProcessFrames(r.c, next, nk)

\* The loop of processReceiveBuffer once decodeZeroCopy has returned d for
\* the bytes data at offset: break, or hand the frame on.
FrameDecoded(c, offset, data, d, nk) ==
    IF ~d.ok THEN [c |-> c, offset |-> offset]
    ELSE FrameHandled(
             HandleFrameFragmented(
                 c, d.opCode, d.fin,
                 SubSeq(data, d.payloadOffset + 1, d.payloadOffset + d.payloadLength),
                 IF d.masked THEN SubSeq(data, d.maskOffset + 1, d.maskOffset + 4)
                 ELSE <<>>,
                 nk),
             offset, offset + d.payloadOffset + d.payloadLength, nk)

\* The loop of processReceiveBuffer from the given offset; returns the
\* connection and the offset it stopped at.
ProcessFrames(c, offset, nk) ==
    IF offset >= Len(c.receiveBuffer) THEN [c |-> c, offset |-> offset]
    ELSE FrameDecoded(c, offset,
                      SubSeq(c.receiveBuffer, offset + 1, Len(c.receiveBuffer)),
                      DecodeZeroCopy(SubSeq(c.receiveBuffer, offset + 1,
                                            Len(c.receiveBuffer)),
                                     Len(c.receiveBuffer) - offset),
                      nk)

\* A compaction that empties the buffer.
CompactDropping(c, offset) ==
    IF offset > Len(c.receiveBuffer) \div 2 /\ offset > 0
    THEN [c EXCEPT !.receiveBuffer = <<>>, !.readOffset = 0]
    ELSE [c EXCEPT !.readOffset = offset]

\* processReceiveBuffer after the loop: readOffset = offset, then the
\* compaction when more than half of the buffer is processed
Compact(c, offset) ==
    IF offset > Len(c.receiveBuffer) \div 2 /\ offset > 0
    THEN [c EXCEPT !.receiveBuffer = SubSeq(@, offset + 1, Len(@)),
                   !.readOffset = 0]
    ELSE [c EXCEPT !.readOffset = offset]

\* What the loop has returned, compacted.
Compacted(r) == Compact(r.c, r.offset)

\* processReceiveBuffer: the loop, then the compaction of the buffer
ProcessReceiveBuffer(c, nk) == Compacted(ProcessFrames(c, c.readOffset, nk))

\* appendReceiveData(data, length)
AppendReceiveData(c, data, nk) ==
    ProcessReceiveBuffer([c EXCEPT !.receiveBuffer = @ \o data], nk)

\* ~ClientWebSocket
Destroy(c, nk) == Close(c, 1000, ClientShutdown, nk)

(***************************************************************************)
(* ClientApp                                                               *)
(***************************************************************************)
\* A handshake response is the set of the three texts handleHttpResponse
\* looks for that it contains.
ResponseTexts == {"101 Switching Protocols", "Upgrade: websocket", "Connection: Upgrade"}

\* connect(): simulatedResponse
SimulatedResponse == ResponseTexts

\* handleHttpResponse that creates the connection before looking at the response.
HandleHttpResponseEagerNew(ws, response, key) ==
    IF ResponseTexts \subseteq response
    THEN [webSocket |-> <<[SetConnected(NewWebSocket(key)) EXCEPT !.opens = @ + 1]>>,
          fired |-> <<"open", "open">>]
    ELSE [webSocket |-> <<NewWebSocket(key)>>, fired |-> <<"failed">>]

\* handleHttpResponse: the new value of webSocket and the callbacks fired.
\* behavior.open runs in setConnected and once more after it.
HandleHttpResponse(ws, response, key) ==
    IF /\ "101 Switching Protocols" \in response
       /\ "Upgrade: websocket" \in response
       /\ "Connection: Upgrade" \in response
    THEN [webSocket |-> <<[SetConnected(NewWebSocket(key)) EXCEPT !.opens = @ + 1]>>,
          fired |-> <<"open", "open">>]
    ELSE [webSocket |-> ws, fired |-> <<"failed">>]

\* isConnected()
IsConnected == webSocket # <<>> /\ webSocket[1].connected

NoCall == [op |-> "none", arg |-> <<>>, fired |-> <<>>]

\* WebSocketManager after its construction.  enqueued counts the entries ever
\* put on sendQueue and pinged the keepalive rounds; lastPingTime is in
\* seconds of the steady clock.
NewManager ==
    [clients |-> <<>>, eventThread |-> FALSE, running |-> FALSE, sendQueue |-> <<>>,
     queueMutex |-> "", refCount |-> 0, enqueued |-> 0, pinged |-> 0,
     lastPingTime |-> 0]

\* No thread runs eventLoop.  A running one is at pc, at index i of a loop
\* over clients that ends at end, forwards the queue entry cur of which it
\* has written off frames, and stale tells that its iterator was invalidated;
\* now is the time it read at the top of the tick.
NoLoop == [pc |-> "none", i |-> 0, end |-> 0, cur |-> <<>>, off |-> 0, stale |-> FALSE,
           now |-> 0]

\* An application thread that is in no call of the pool.
IdleCaller == [pc |-> "idle", idx |-> 0, url |-> <<>>, size |-> 0, thrown |-> FALSE]

\* The pool with the application threads T, none of them in a call.
PoolStart(T) ==
    /\ manager = NewManager
    /\ handles = {}
    /\ callers = [t \in T |-> IdleCaller]
    /\ loop = NoLoop
    /\ proc = "up"

\* The pool's variables while the pool is not exercised.
PoolIdle == PoolStart({})

(***************************************************************************)
(* The HTTP client pool before the first HttpRequest call.                 *)
(***************************************************************************)
\* The locals of HttpClient::readResponse at its entry (lines 291..300).
NewResponse ==
    [response_buffer |-> <<>>, headers_parsed |-> FALSE, status_code |-> 0,
     status_message |-> <<>>, response_headers |-> <<>>, content_length |-> -1]

\* HttpClientPool::manager as constructed.  eventThread is "none", "running"
\* or "finished" (eventLoop has returned).
NewHttpManager ==
    [eventThread |-> "none", running |-> FALSE, refCount |-> 0, request_count |-> 0]

\* No thread runs eventLoop.  Of a running one: where it is (pc), the pollfds
\* of processHttpRequests (fds: the requests polled, revents: which are
\* ready), the index i of its loop over them and the locals of readResponse.
NoHttpLoop ==
    [pc |-> "none", fds |-> <<>>, revents |-> {}, i |-> 0, response |-> NewResponse,
     eagain |-> FALSE]

HttpIdle ==
    /\ httpManager = NewHttpManager
    /\ pending_requests = <<>>
    /\ requests = <<>>
    /\ httpLoop = NoHttpLoop
    /\ seconds = 0

\* The connection's variables while only the codec is exercised.
ConnIdle ==
    /\ ssl = FALSE
    /\ alive = TRUE
    /\ parsedUrl = [host |-> <<>>, port |-> <<>>, path |-> <<>>, ssl |-> FALSE]
    /\ webSocket = <<>>
    /\ lastCall = NoCall
    /\ now = 0
    /\ HttpIdle

(***************************************************************************)
(* The codec harness: encode an input, then decode the frame or one of its *)
(* strict prefixes.  An input either carries its payload bytes (whole) or, *)
(* for the lengths of the 64-bit tier, only the payload length: there      *)
(* cframe holds the frame's bytes up to the payload, which are all that    *)
(* decodeZeroCopy reads, and csize the size of the frame.                  *)
(***************************************************************************)
ByteAlphabet == {0, 255, 65}

MaskKeys == {<<0, 0, 0, 0>>, <<18, 52, 86, 120>>, <<255, 0, 170, 85>>}

Patterns == {"ramp", "zero", "ff"}

\* A payload of len bytes: a ramp, all 0x00, or all 0xFF.
Payload(pat, len) ==
    [p \in 1..len |-> IF pat = "zero" THEN 0
                      ELSE IF pat = "ff" THEN 255
                      ELSE (p * 37 + 90) % 256]

\* Every byte sequence over ByteAlphabet of length 0..MaxEnumLen.
EnumPayloads == UNION {[1..n -> ByteAlphabet] : n \in 0..MaxEnumLen}

\* The payload lengths around the 7-bit / 16-bit boundary, encoded whole.
MidLengths == (Len7Max - 1)..(Len7Max + 2)

\* The payload lengths around the 16-bit / 64-bit boundary and beyond.
BigLengths ==
    ((Len16Max - 1)..(Len16Max + 2)) \cup {1048576, 16777216, 2147483633}

CodecInputs ==
    {[whole |-> TRUE, message |-> m, length |-> Len(m), opCode |-> o, fin |-> f,
      maskKey |-> k, build |-> "scalar"] :
        m \in EnumPayloads, o \in OpCodes, f \in BOOLEAN, k \in MaskKeys}
    \cup
    {[whole |-> TRUE, message |-> Payload(pl[1], pl[2]), length |-> pl[2],
      opCode |-> o, fin |-> TRUE, maskKey |-> k, build |-> b] :
        pl \in Patterns \X ((0..MaxLen) \cup MidLengths), o \in {BINARY},
        k \in MaskKeys, b \in Builds}
    \cup
    {[whole |-> FALSE, message |-> <<>>, length |-> n, opCode |-> o, fin |-> f,
      maskKey |-> k, build |-> "scalar"] :
        n \in BigLengths \cup MidLengths \cup {0, 1}, o \in OpCodes,
        f \in BOOLEAN, k \in MaskKeys}

NoMessage == [ok |-> FALSE, opCode |-> 0, fin |-> FALSE, message |-> <<>>]

NoDecode == [zc |-> NoFrame, d |-> NoMessage]

\* The prefix sizes tried on a frame of the given size: the first ones, which
\* cut the header, and the last ones, which cut the payload.
Cuts(size) ==
    (0..Min(MaxHeadCut, size - 1)) \cup {c \in {size - 2, size - 1} : c >= 0}

CodecInit ==
    /\ cpc = "input"
    /\ cin \in CodecInputs
    /\ cframe = <<>>
    /\ csize = 0
    /\ ccut = 0
    /\ cdec = NoDecode
    /\ ConnIdle
    /\ PoolIdle

\* encode(message, opCode, fin)
CodecEncode ==
    /\ cpc = "input"
    /\ cin.whole
    /\ cframe' = Encode(cin.message, cin.opCode, cin.fin, cin.maskKey, cin.build)
    /\ csize' = Len(cframe')
    /\ cpc' = "encoded"
    /\ UNCHANGED <<cin, ccut, cdec, connVars, otherVars>>

\* encode of a payload of cin.length bytes, up to the payload.
CodecEncodeHeader ==
    /\ cpc = "input"
    /\ ~cin.whole
    /\ cframe' = EncodeHeader(cin.length, cin.opCode, cin.fin, cin.maskKey)
    /\ csize' = GetEncodedSize(cin.length)
    /\ cpc' = "encoded"
    /\ UNCHANGED <<cin, ccut, cdec, connVars, otherVars>>

\* decodeZeroCopy and decode on the first cut bytes of the frame.
DecodeFirst(cut) ==
    LET data == SubSeq(cframe, 1, Min(cut, Len(cframe)))
    IN  [zc |-> DecodeZeroCopy(data, cut),
         d |-> IF cin.whole THEN Decode(data, cut) ELSE NoMessage]

CodecDecode ==
    /\ cpc = "encoded"
    /\ ccut' = csize
    /\ cdec' = DecodeFirst(csize)
    /\ cpc' = "decoded"
    /\ UNCHANGED <<cin, cframe, csize, connVars, otherVars>>

CodecDecodePrefix ==
    /\ cpc = "encoded"
    /\ \E cut \in Cuts(csize) :
        /\ ccut' = cut
        /\ cdec' = DecodeFirst(cut)
    /\ cpc' = "decoded"
    /\ UNCHANGED <<cin, cframe, csize, connVars, otherVars>>

CodecNext == CodecEncode \/ CodecEncodeHeader \/ CodecDecode \/ CodecDecodePrefix


SpecCodec == CodecInit /\ [][CodecNext]_vars

\* connect(url) up to its return: the new parsedUrl and webSocket and the
\* callbacks fired.
ConnectOp(ws, url, uninit, key) ==
    LET pu == Parse(url, uninit)
    IN  IF pu.host = <<>>
        THEN [parsedUrl |-> pu, webSocket |-> ws, fired |-> <<"failed">>]
        ELSE IF pu.ssl /\ ~ssl
        THEN [parsedUrl |-> pu, webSocket |-> ws, fired |-> <<"failed">>]
        ELSE LET r == HandleHttpResponse(ws, SimulatedResponse, key)
             IN  [parsedUrl |-> pu, webSocket |-> r.webSocket, fired |-> r.fired]

(***************************************************************************)
(* The inputs of the connection's operations.                              *)
(***************************************************************************)
\* ws://h/c, ws://h:8, wss://s, http://h, ws:// and the empty string
Urls ==
    {<<"w", "s", ":", "/", "/", "h", "/", "c">>,
     <<"w", "s", ":", "/", "/", "h", ":", "8">>,
     <<"w", "s", "s", ":", "/", "/", "s">>,
     <<"h", "t", "t", "p", ":", "/", "/", "h">>,
     <<"w", "s", ":", "/", "/">>,
     <<>>}

\* ws://h/c
WsUrls == {<<"w", "s", ":", "/", "/", "h", "/", "c">>}

Responses == SUBSET ResponseTexts

ConnMaskKeys == {<<18, 52, 86, 120>>}

\* The payload of a Close frame: the code, big-endian, then the reason.
CloseBody(code, reason) == <<code \div 256, code % 256>> \o reason

Frame(opCode, fin, payload, mask) ==
    [opCode |-> opCode, fin |-> fin, payload |-> payload, mask |-> mask]

\* The frames a peer sends; mask <<>> is an unmasked frame.
RxFrames ==
    {Frame(TEXT, FALSE, <<65, 66>>, <<>>),
     Frame(TEXT, TRUE, <<65, 66>>, <<>>),
     Frame(BINARY, FALSE, <<0, 255>>, <<18, 52, 86, 120>>),
     Frame(CONTINUATION, FALSE, <<67, 68>>, <<>>),
     Frame(CONTINUATION, TRUE, <<69, 70>>, <<>>),
     Frame(CLOSE, TRUE, CloseBody(1000, <<>>), <<>>),
     Frame(CLOSE, TRUE, CloseBody(1001, <<120>>), <<18, 52, 86, 120>>),
     Frame(CLOSE, TRUE, <<>>, <<>>),
     Frame(PING, TRUE, <<80, 81>>, <<18, 52, 86, 120>>),
     Frame(PONG, TRUE, <<>>, <<>>)}

\* The bytes of a frame on the wire, in the layout decodeZeroCopy reads.
PeerFrame(f) ==
    IF f.mask = <<>>
    THEN <<(IF f.fin THEN 128 ELSE 0) + f.opCode, Len(f.payload)>> \o f.payload
    ELSE Encode(f.payload, f.opCode, f.fin, f.mask, "scalar")

\* The arguments of local close() calls.
LocalCloses == {[code |-> 1000, reason |-> <<>>], [code |-> 3000, reason |-> <<120>>]}

\* The arguments of local send() calls.
LocalSends == {[message |-> <<104, 105>>, opCode |-> TEXT],
               [message |-> <<>>, opCode |-> PING]}

(***************************************************************************)
(* The actions of a ClientApp and its connection.  ClientApp::run, which   *)
(* only simulates one received message, is not part of the model.          *)
(***************************************************************************)
\* A ClientApp<SSL> after its constructor; parsedUrl.ssl is not initialised.
AppInit ==
    /\ ssl \in BOOLEAN
    /\ alive = TRUE
    /\ parsedUrl \in {[host |-> <<>>, port |-> <<>>, path |-> <<>>, ssl |-> u] :
                         u \in BOOLEAN}
    /\ webSocket = <<>>
    /\ lastCall = NoCall
    /\ now = 0
    /\ HttpIdle

\* The codec harness's variables while the connection is exercised.
CodecIdle ==
    /\ cpc = "idle"
    /\ cin = <<>>
    /\ cframe = <<>>
    /\ csize = 0
    /\ ccut = 0
    /\ cdec = NoDecode

\* app.connect(url) with url drawn from urls
ConnectWith(urls) ==
    /\ alive
    /\ \E url \in urls, uninit \in BOOLEAN, key \in ConnMaskKeys :
        LET r == ConnectOp(webSocket, url, uninit, key)
        IN  /\ parsedUrl' = r.parsedUrl
            /\ webSocket' = r.webSocket
            /\ lastCall' = [op |-> "connect", arg |-> url, fired |-> r.fired]
    /\ UNCHANGED <<ssl, alive, codecVars, otherVars>>

\* app.connect(url), any URL
Connect == ConnectWith(Urls)

\* app.connect(url), a ws:// URL
ConnectWs == ConnectWith(WsUrls)

\* handleHttpResponse(response) on a response received from the peer
ReceiveHttpResponse ==
    /\ alive
    /\ \E response \in Responses, key \in ConnMaskKeys :
        LET r == HandleHttpResponse(webSocket, response, key)
        IN  /\ webSocket' = r.webSocket
            /\ lastCall' = [op |-> "response", arg |-> response, fired |-> r.fired]
    /\ UNCHANGED <<ssl, alive, parsedUrl, codecVars, otherVars>>

\* webSocket->appendReceiveData(the bytes of frame f)
ReceiveFrame(f) ==
    /\ alive
    /\ webSocket # <<>>
    /\ \E nk \in ConnMaskKeys :
        webSocket' = <<[AppendReceiveData(webSocket[1], PeerFrame(f), nk)
                        EXCEPT !.received = @ + 1, !.ref = RefStep(@, f)]>>
    /\ UNCHANGED <<ssl, alive, parsedUrl, lastCall, codecVars, otherVars>>

\* The peer's next frame arrives.
WsReceive ==
    /\ webSocket # <<>>
    /\ webSocket[1].received < MaxFrames
    /\ \E f \in RxFrames : ReceiveFrame(f)

\* webSocket->send(message, opCode)
WsSend ==
    /\ alive
    /\ webSocket # <<>>
    /\ Len(webSocket[1].sent) < MaxSent
    /\ \E s \in LocalSends, nk \in ConnMaskKeys :
        webSocket' = <<Send(webSocket[1], s.message, s.opCode, nk).c>>
    /\ UNCHANGED <<ssl, alive, parsedUrl, lastCall, codecVars, otherVars>>

\* webSocket->close(code, reason)
WsClose ==
    /\ alive
    /\ webSocket # <<>>
    /\ \E a \in LocalCloses, nk \in ConnMaskKeys :
        webSocket' = <<Close(webSocket[1], a.code, a.reason, nk)>>
    /\ UNCHANGED <<ssl, alive, parsedUrl, lastCall, codecVars, otherVars>>

\* webSocket->close(a.code, a.reason)
CloseWith(a) ==
    /\ alive
    /\ webSocket # <<>>
    /\ \E nk \in ConnMaskKeys :
        webSocket' = <<Close(webSocket[1], a.code, a.reason, nk)>>
    /\ UNCHANGED <<ssl, alive, parsedUrl, lastCall, codecVars, otherVars>>

\* A message of n bytes whose bytes depend on their position.
Pattern(n) == [i \in 1..n |-> i % 251]

\* The sizes of the messages sent: the small ones and those around one and
\* two times the fragmentation threshold.
SendSizes ==
    (0..MaxSmallSend)
        \cup {MaxFrameSize, MaxFrameSize + 1, 2 * MaxFrameSize, (2 * MaxFrameSize) + 1}

\* webSocket->send(message, opCode) with a patterned message, on a
\* connection that has written nothing yet
WsSendPattern ==
    /\ alive
    /\ webSocket # <<>>
    /\ webSocket[1].sent = <<>>
    /\ webSocket[1].sendSeen = <<>>
    /\ \E n \in SendSizes, op \in {TEXT, BINARY}, nk \in ConnMaskKeys :
        \E r \in {Send(webSocket[1], Pattern(n), op, nk)} :
            webSocket' = <<[r.c EXCEPT !.sendSeen =
                               <<[size |-> n, opCode |-> op, ok |-> r.ok]>>]>>
    /\ UNCHANGED <<ssl, alive, parsedUrl, lastCall, codecVars, otherVars>>

\* The arguments of isAlive() calls, in milliseconds.
TimeoutsMs == {0, 1, 2}

\* webSocket->isAlive(timeoutMs)
WsIsAlive ==
    /\ alive
    /\ webSocket # <<>>
    /\ \E t \in TimeoutsMs :
        webSocket' = <<[webSocket[1] EXCEPT !.aliveSeen =
                           <<[timeout |-> t,
                              elapsed |-> now - webSocket[1].lastPongTime,
                              result |-> IsAlive(webSocket[1], t)]>>]>>
    /\ UNCHANGED <<ssl, alive, parsedUrl, lastCall, codecVars, otherVars>>

\* A Pong frame arrives.
WsReceivePong ==
    /\ webSocket # <<>>
    /\ webSocket[1].received < MaxFrames
    /\ ReceiveFrame(Frame(PONG, TRUE, <<>>, <<>>))

\* A millisecond passes.
Tick ==
    /\ now < MaxTime
    /\ now' = now + 1
    /\ UNCHANGED <<connVars, codecVars, poolVars, httpVars>>

\* ~ClientApp: delete webSocket, whose destructor closes it
AppDestroy ==
    /\ alive
    /\ alive' = FALSE
    /\ \E nk \in ConnMaskKeys :
        webSocket' = IF webSocket = <<>> THEN <<>> ELSE <<Destroy(webSocket[1], nk)>>
    /\ UNCHANGED <<ssl, parsedUrl, lastCall, codecVars, otherVars>>

(***************************************************************************)
(* Spec: one ClientApp<false> and the connection it opens with ws://h/c.   *)
(***************************************************************************)
Init == AppInit /\ ssl = FALSE /\ CodecIdle /\ PoolIdle

Next == ConnectWs \/ WsReceive \/ WsSend \/ WsClose \/ AppDestroy

Spec == Init /\ [][Next]_vars

(***************************************************************************)
(* SpecAlive: the connection, the clock, Pong frames and isAlive().         *)
(***************************************************************************)
AliveNext == ConnectWs \/ Tick \/ WsReceivePong \/ WsIsAlive \/ WsClose

SpecAlive == Init /\ [][AliveNext]_vars

(***************************************************************************)
(* SpecSend: send() of messages below, at and above the fragmentation       *)
(* threshold on a fresh connection.                                         *)
(***************************************************************************)
SendNext == ConnectWs \/ WsSendPattern

SpecSend == Init /\ [][SendNext]_vars

(***************************************************************************)
(* SpecSendState: send() of every opcode on a connection in each of its    *)
(* states, which connect(), close() and setState() give it.                *)
(***************************************************************************)
States == {"CONNECTING", "HANDSHAKE", "CONNECTED", "CLOSING", "CLOSED"}

\* webSocket->setState(s)
WsSetState ==
    /\ alive
    /\ webSocket # <<>>
    /\ webSocket[1].closes = <<>>
    /\ \E s \in States :
        /\ webSocket' = <<[webSocket[1] EXCEPT !.state = s]>>
        /\ lastCall' = [op |-> "setState", arg |-> <<s>>, fired |-> <<>>]
    /\ UNCHANGED <<ssl, alive, parsedUrl, codecVars, otherVars>>

\* webSocket->close(code, reason)
WsCloseCall ==
    /\ alive
    /\ webSocket # <<>>
    /\ \E a \in LocalCloses, nk \in ConnMaskKeys :
        /\ webSocket' = <<Close(webSocket[1], a.code, a.reason, nk)>>
        /\ lastCall' = [op |-> "close", arg |-> a.reason, fired |-> <<>>]
    /\ UNCHANGED <<ssl, alive, parsedUrl, codecVars, otherVars>>

\* The sizes of the messages sent.
StateSendSizes == {0, 2}

\* webSocket->send(message, opCode) with a patterned message and any opcode
WsSendOp ==
    /\ alive
    /\ webSocket # <<>>
    /\ Len(webSocket[1].sent) < MaxStateSent
    /\ \E n \in StateSendSizes, op \in OpCodes, nk \in ConnMaskKeys :
        \E r \in {Send(webSocket[1], Pattern(n), op, nk)} :
            /\ webSocket' = <<[r.c EXCEPT !.sendSeen =
                                  <<[size |-> n, opCode |-> op, ok |-> r.ok]>>]>>
            /\ lastCall' = [op |-> "send", arg |-> Pattern(n), fired |-> <<>>]
    /\ UNCHANGED <<ssl, alive, parsedUrl, codecVars, otherVars>>

SendStateNext == ConnectWs \/ WsSetState \/ WsCloseCall \/ WsSendOp

SpecSendState == Init /\ [][SendStateNext]_vars

(***************************************************************************)
(* SpecClose: a connection receives Close frames of every shape, masked    *)
(* and unmasked, and is closed locally with codes over the 16-bit range.   *)
(***************************************************************************)
\* The unmasked payloads of the Close frames received: none, one byte, a code
\* alone, and a code with a reason.
ClosePayloads ==
    {<<>>, <<3>>, <<3, 232>>, <<3, 233, 120>>, <<255, 255>>, <<0, 0, 0, 255, 128>>,
     <<128, 1, 65, 66, 67, 68, 69>>}

CloseMasks == {<<>>, <<18, 52, 86, 120>>, <<255, 0, 170, 85>>}

\* A connection receives at most MaxCloseFrames Close frames.
MaxCloseFrames == 2

CloseFrames == {Frame(CLOSE, TRUE, p, m) : p \in ClosePayloads, m \in CloseMasks}

\* The arguments of the local close() calls.
CloseArgs ==
    {[code |-> k, reason |-> r] : k \in {0, 255, 256, 1000, 3000, 65535},
                                  r \in {<<>>, <<120, 121, 122>>}}

\* The Close frame whose payload is the closePayload that close(a.code,
\* a.reason) builds, as a peer sends it with the mask m.
BuiltClose(a, m) == Frame(CLOSE, TRUE, NetworkCodeBytes(a.code) \o a.reason, m)

\* The peer's next Close frame arrives; lastCall keeps its unmasked payload.
CloseReceive ==
    /\ alive
    /\ webSocket # <<>>
    /\ webSocket[1].received < MaxCloseFrames
    /\ \E f \in CloseFrames \cup {BuiltClose(a, m) : a \in CloseArgs, m \in CloseMasks},
          nk \in ConnMaskKeys :
        /\ webSocket' = <<[AppendReceiveData(webSocket[1], PeerFrame(f), nk)
                           EXCEPT !.received = @ + 1, !.ref = RefStep(@, f)]>>
        /\ lastCall' = [op |-> "receive", arg |-> f.payload, fired |-> <<>>]
    /\ UNCHANGED <<ssl, alive, parsedUrl, codecVars, otherVars>>

CloseLocal == \E a \in CloseArgs : CloseWith(a)

CloseNext == ConnectWs \/ CloseReceive \/ CloseLocal

SpecClose == Init /\ [][CloseNext]_vars

(***************************************************************************)
(* The peer's byte stream read in chunks: the peer writes well-sequenced   *)
(* frames to the socket, and each read passes some of the unread bytes to  *)
(* appendReceiveData, wherever the read happens to end.                    *)
(***************************************************************************)
MaxStreamBytes == 14

\* The frames of the stream: masked and unmasked, whole messages, the
\* fragments of a message, an empty message and a control frame.
StreamFrames ==
    {Frame(TEXT, TRUE, <<65, 66>>, <<18, 52, 86, 120>>),
     Frame(TEXT, FALSE, <<67>>, <<>>),
     Frame(CONTINUATION, FALSE, <<70>>, <<>>),
     Frame(CONTINUATION, TRUE, <<68, 69>>, <<255, 0, 170, 85>>),
     Frame(BINARY, TRUE, <<>>, <<>>),
     Frame(PING, TRUE, <<80>>, <<>>)}

\* The peer writes one more frame that keeps the stream well sequenced.
PeerWrite ==
    /\ alive
    /\ webSocket # <<>>
    /\ \E f \in StreamFrames :
        /\ ~RefStep(webSocket[1].ref, f).bad
        /\ Len(webSocket[1].inbound) + Len(PeerFrame(f)) <= MaxStreamBytes
        /\ webSocket' = <<[webSocket[1] EXCEPT !.inbound = @ \o PeerFrame(f),
                                               !.ref = RefStep(@, f)]>>
    /\ UNCHANGED <<ssl, alive, parsedUrl, lastCall, codecVars, otherVars>>

\* One read of n of the unread bytes, passed to appendReceiveData.
ReadChunk ==
    /\ alive
    /\ webSocket # <<>>
    /\ \E n \in 1..(Len(webSocket[1].inbound) - webSocket[1].taken),
          nk \in ConnMaskKeys :
        LET chunk == SubSeq(webSocket[1].inbound, webSocket[1].taken + 1,
                            webSocket[1].taken + n)
        IN  /\ webSocket' = <<[AppendReceiveData(webSocket[1], chunk, nk)
                               EXCEPT !.received = @ + 1, !.taken = @ + n]>>
            /\ lastCall' = [op |-> "receive", arg |-> chunk, fired |-> <<>>]
    /\ UNCHANGED <<ssl, alive, parsedUrl, codecVars, otherVars>>

ChunkNext == ConnectWs \/ PeerWrite \/ ReadChunk

SpecChunks == Init /\ [][ChunkNext]_vars

(***************************************************************************)
(* SpecApp: connect() on every URL and handleHttpResponse on every         *)
(* response, for both values of SSL.                                       *)
(***************************************************************************)
AppNext == Connect \/ ReceiveHttpResponse \/ WsClose \/ AppDestroy

InitApp == AppInit /\ CodecIdle /\ PoolIdle

SpecApp == InitApp /\ [][AppNext]_vars

(***************************************************************************)
(* SpecUrl: connect() on the URLs ws://host[:port][/path] and              *)
(* wss://host[:port][/path] built from their parts, and on URLs of other   *)
(* forms.                                                                  *)
(***************************************************************************)
\* The parts of a URL: the scheme, the host, the port (<<>>: none) and the
\* path (<<>>: none).  Hosts and ports hold neither ':' nor '/'.
UrlParts ==
    [scheme : {<<"w", "s">>, <<"w", "s", "s">>},
     host : {<<"h">>, <<"a", ".", "b">>},
     port : {<<>>, <<"8">>, <<"4", "4", "3">>},
     path : {<<>>, <<"/">>, <<"/", "c">>, <<"/", "a", ":", "b">>,
             <<"/", "c", "/", "d", ":", "9", "/">>}]

\* The URL made of the parts u
UrlText(u) ==
    u.scheme \o <<":", "/", "/">> \o u.host
        \o (IF u.port = <<>> THEN <<>> ELSE <<":">> \o u.port) \o u.path

\* http://h:8/c, ftp://h, w://h, ws:/h, wss:h and h
OtherUrls ==
    {<<"h", "t", "t", "p", ":", "/", "/", "h", ":", "8", "/", "c">>,
     <<"f", "t", "p", ":", "/", "/", "h">>,
     <<"w", ":", "/", "/", "h">>,
     <<"w", "s", ":", "/", "h">>,
     <<"w", "s", "s", ":", "h">>,
     <<"h">>}

UrlNext == ConnectWith({UrlText(u) : u \in UrlParts} \cup OtherUrls)

SpecUrl == InitApp /\ [][UrlNext]_vars

(***************************************************************************)
(* The connection pool of src/examples/PooledClient.h.  Every              *)
(* WebSocketClient is a handle on the static WebSocketManager, whose       *)
(* members are not protected by a mutex, sendQueue excepted.  A step of a  *)
(* thread is one access to the shared members; a call of a thread that     *)
(* uses a ClientApp after its check of the slot goes wrong if the slot has *)
(* been reset in between (a use after free): the process crashes or the    *)
(* call has no effect.                                                     *)
(***************************************************************************)
\* The limit on clients.size() in addClient.
PoolCap == 100

\* Only the handles of an index below MaxReleasable are destroyed.
MaxReleasable == 2
\* The capacity scenario starts CapHeadroom clients below the limit.
CapHeadroom == 2
\* The concurrent scenario adds at most MaxClients clients,
MaxClients == 2
\* its threads queue at most MaxMsgs messages
MaxMsgs == 2
\* and the ping interval elapses at most MaxPingRounds times.
MaxPingRounds == 1
\* A removed handle is removed again while refCount is above -MaxRepeats.
MaxRepeats == 1

\* The application threads, and the one that creates and destroys the
\* handles where only one does.
Threads == {"t1", "t2"}

Owners == {"t1"}

\* The sizes of the messages queued: one frame, and two frames.
PoolSizes == {1, MaxFrameSize + 1}

\* The ClientApp of a slot: whether it has a connected webSocket, and the
\* frames its webSocket has written.
NewPoolClient == [webSocket |-> FALSE, wire |-> <<>>]

\* clients.back()->connect(url)
PoolConnect(client, url, key) ==
    LET r == ConnectOp(<<>>, url, FALSE, key)
    IN  [client EXCEPT !.webSocket = r.webSocket # <<>> /\ r.webSocket[1].connected]

\* WebSocketManager::isConnected(index)
PoolIsConnected(m, index) ==
    /\ index < Len(m.clients)
    /\ m.clients[index + 1] # <<>>
    /\ m.clients[index + 1].webSocket

\* The number of frames send() writes for a message of the given size.
PoolFrameCount(size) ==
    IF size <= MaxFrameSize THEN 1 ELSE (size + MaxFrameSize - 1) \div MaxFrameSize

\* The k-th frame send() writes for msg: its opcode, fin and payload size.
PoolFrame(msg, k) ==
    [id |-> msg.id,
     opCode |-> IF k = 1 THEN TEXT ELSE CONTINUATION,
     fin |-> (k = PoolFrameCount(msg.size)),
     size |-> Min(MaxFrameSize, msg.size - ((k - 1) * MaxFrameSize))]

\* The live connections: the slots of clients that hold a ClientApp.
Live(m) == {i \in 1..Len(m.clients) : m.clients[i] # <<>>}

\* Thread t after its call has returned.
Returned(c) == [c EXCEPT !.pc = "idle", !.idx = 0, !.url = <<>>, !.size = 0]

\* addClient with ++refCount ahead of the check of clients.size().
AddClientCountsFirst(t, urls) ==
    /\ proc = "up"
    /\ callers[t].pc = "idle"
    /\ \E url \in urls :
        IF Len(manager.clients) >= PoolCap
        THEN /\ callers' = [callers EXCEPT ![t].thrown = TRUE]
             /\ manager' = [manager EXCEPT !.refCount = @ + 1]
             /\ UNCHANGED loop
        ELSE /\ manager' = [manager EXCEPT !.clients = Append(@, NewPoolClient)]
             /\ callers' = [callers EXCEPT ![t] =
                               [pc |-> "add_connect", idx |-> Len(manager.clients),
                                url |-> url, size |-> 0, thrown |-> FALSE]]
             /\ loop' = [loop EXCEPT !.stale = @ \/ loop.pc \in {"poll", "run"}]
    /\ UNCHANGED <<handles, proc, connVars, codecVars, now, httpVars>>

\* new WebSocketClient(behavior, url) on thread t, url drawn from urls:
\* addClient up to emplace_back, or its throw, which thrown records until
\* the next call of the thread
AddClient(t, urls) ==
    /\ proc = "up"
    /\ callers[t].pc = "idle"
    /\ \E url \in urls :
        IF Len(manager.clients) >= PoolCap
        THEN /\ callers' = [callers EXCEPT ![t].thrown = TRUE]
             /\ UNCHANGED <<manager, loop>>
        ELSE /\ manager' = [manager EXCEPT !.clients = Append(@, NewPoolClient)]
             /\ callers' = [callers EXCEPT ![t] =
                               [pc |-> "add_connect", idx |-> Len(manager.clients),
                                url |-> url, size |-> 0, thrown |-> FALSE]]
             /\ loop' = [loop EXCEPT !.stale = @ \/ loop.pc \in {"poll", "run"}]
    /\ UNCHANGED <<handles, proc, connVars, codecVars, now, httpVars>>

\* addClient: if (!url.empty()) clients.back()->connect(url)
AddClientConnect(t) ==
    /\ proc = "up"
    /\ callers[t].pc = "add_connect"
    /\ \E key \in ConnMaskKeys :
        manager' = [manager EXCEPT !.clients[callers[t].idx + 1] =
                       IF callers[t].url = <<>> THEN @
                       ELSE PoolConnect(@, callers[t].url, key)]
    /\ callers' = [callers EXCEPT ![t].pc = "add_count"]
    /\ UNCHANGED <<handles, loop, proc, connVars, codecVars, now, httpVars>>

\* addClient: ++refCount == 1 && !running
AddClientCount(t) ==
    /\ proc = "up"
    /\ callers[t].pc = "add_count"
    /\ manager' = [manager EXCEPT !.refCount = @ + 1]
    /\ IF manager.refCount + 1 = 1 /\ ~manager.running
       THEN /\ callers' = [callers EXCEPT ![t].pc = "add_start"]
            /\ UNCHANGED handles
       ELSE /\ callers' = [callers EXCEPT ![t] = Returned(@)]
            /\ handles' = handles \cup {callers[t].idx}
    /\ UNCHANGED <<loop, proc, connVars, codecVars, now, httpVars>>

\* addClient: running = true; eventThread = std::thread(eventLoop), whose
\* first statement is lastPingTime = now.  The assignment to a joinable
\* std::thread calls std::terminate.
AddClientStart(t) ==
    /\ proc = "up"
    /\ callers[t].pc = "add_start"
    /\ IF manager.eventThread
       THEN /\ proc' = "terminated"
            /\ manager' = [manager EXCEPT !.running = TRUE]
            /\ UNCHANGED <<handles, callers, loop>>
       ELSE /\ manager' = [manager EXCEPT !.running = TRUE, !.eventThread = TRUE,
                                          !.lastPingTime = seconds]
            /\ loop' = [NoLoop EXCEPT !.pc = "while"]
            /\ callers' = [callers EXCEPT ![t] = Returned(@)]
            /\ handles' = handles \cup {callers[t].idx}
            /\ UNCHANGED proc
    /\ UNCHANGED <<connVars, codecVars, now, httpVars>>

\* ~WebSocketClient on thread t: removeClient(index), clients[index].reset()
RemoveClient(t) ==
    /\ proc = "up"
    /\ callers[t].pc = "idle"
    /\ \E index \in handles :
        /\ index < MaxReleasable
        /\ handles' = handles \ {index}
        /\ manager' = [manager EXCEPT !.clients =
                          IF index < Len(@) THEN [@ EXCEPT ![index + 1] = <<>>] ELSE @]
        /\ callers' = [callers EXCEPT ![t] =
                          [pc |-> "rm_count", idx |-> index, url |-> <<>>,
                           size |-> 0, thrown |-> FALSE]]
    /\ UNCHANGED <<loop, proc, connVars, codecVars, now, httpVars>>

\* ~WebSocketClient of a copy of a handle that has been destroyed:
\* removeClient(index) on a slot that is reset already
RemoveClientAgain(t) ==
    /\ proc = "up"
    /\ callers[t].pc = "idle"
    /\ manager.refCount > -MaxRepeats
    /\ \E index \in 0..(Len(manager.clients) - 1) :
        /\ index < MaxReleasable
        /\ index \notin handles
        /\ manager.clients[index + 1] = <<>>
        /\ callers' = [callers EXCEPT ![t] =
                          [pc |-> "rm_count", idx |-> index, url |-> <<>>,
                           size |-> 0, thrown |-> FALSE]]
    /\ UNCHANGED <<manager, handles, loop, proc, connVars, codecVars, now, httpVars>>

\* removeClient: --refCount == 0
RemoveClientCount(t) ==
    /\ proc = "up"
    /\ callers[t].pc = "rm_count"
    /\ manager' = [manager EXCEPT !.refCount = @ - 1]
    /\ callers' = [callers EXCEPT ![t] =
                      IF manager.refCount - 1 = 0 THEN [@ EXCEPT !.pc = "rm_stop"]
                      ELSE Returned(@)]
    /\ UNCHANGED <<handles, loop, proc, connVars, codecVars, now, httpVars>>

\* removeClient: running = false
RemoveClientStop(t) ==
    /\ proc = "up"
    /\ callers[t].pc = "rm_stop"
    /\ manager' = [manager EXCEPT !.running = FALSE]
    /\ callers' = [callers EXCEPT ![t].pc = "rm_join"]
    /\ UNCHANGED <<handles, loop, proc, connVars, codecVars, now, httpVars>>

\* removeClient: if (eventThread.joinable()) eventThread.join(), which
\* returns once eventLoop has returned
RemoveClientJoin(t) ==
    /\ proc = "up"
    /\ callers[t].pc = "rm_join"
    /\ manager.eventThread => loop.pc = "exited"
    /\ manager' = [manager EXCEPT !.eventThread = FALSE]
    /\ loop' = IF manager.eventThread THEN NoLoop ELSE loop
    /\ callers' = [callers EXCEPT ![t] = Returned(@)]
    /\ UNCHANGED <<handles, proc, connVars, codecVars, now, httpVars>>

\* WebSocketClient::sendMessage(msg) on thread t: the call of queueSend
SendMessage(t) ==
    /\ proc = "up"
    /\ callers[t].pc = "idle"
    /\ manager.enqueued < MaxMsgs
    /\ \E index \in handles, size \in PoolSizes :
        callers' = [callers EXCEPT ![t] =
                       [pc |-> "queue", idx |-> index, url |-> <<>>, size |-> size,
                        thrown |-> FALSE]]
    /\ UNCHANGED <<manager, handles, loop, proc, connVars, codecVars, now, httpVars>>

\* sendQueue after queueSend(index, a message of the given size): the lock
\* is taken, the entry put at the back and the lock released.
Enqueue(m, index, size) ==
    [m EXCEPT !.sendQueue = Append(@, [idx |-> index,
                                       msg |-> [id |-> m.enqueued + 1, size |-> size]]),
              !.enqueued = @ + 1]

\* queueSend on thread t, once queueMutex is free
QueueSend(t) ==
    /\ proc = "up"
    /\ callers[t].pc = "queue"
    /\ manager.queueMutex = ""
    /\ manager' = Enqueue(manager, callers[t].idx, callers[t].size)
    /\ callers' = [callers EXCEPT ![t] = Returned(@)]
    /\ UNCHANGED <<handles, loop, proc, connVars, codecVars, now, httpVars>>

\* The outcomes of a call on the ClientApp of a slot that the loop has found
\* set: those of a use after free if the slot has been reset since, or if
\* the iterator of the loop was invalidated by an emplace_back.
Outcomes(undefined) == IF undefined THEN {"crash", "none"} ELSE {"done"}

\* The process crashes.
Crash ==
    /\ proc' = "crashed"
    /\ UNCHANGED <<manager, loop>>

\* eventLoop: while (running)
EventLoopWhile ==
    /\ proc = "up"
    /\ loop.pc = "while"
    /\ loop' = [loop EXCEPT !.pc = IF manager.running THEN "ping" ELSE "exited"]
    /\ UNCHANGED <<manager, handles, callers, proc, connVars, codecVars, now, httpVars>>

\* eventLoop: now = steady_clock::now() and the branch of
\* if (now - lastPingTime >= pingInterval), due telling which one is taken
PingBranch(due) ==
    /\ loop' = [loop EXCEPT !.pc = IF due THEN "ping_client" ELSE "lock", !.i = 0,
                            !.now = seconds]
    /\ manager' = [manager EXCEPT !.pinged = IF due THEN @ + 1 ELSE @]

\* eventLoop: if (now - lastPingTime >= pingInterval) where the clock is not
\* part of the scenario: whether the interval has elapsed is an input
EventLoopPing ==
    /\ proc = "up"
    /\ loop.pc = "ping"
    /\ \E due \in BOOLEAN :
        /\ due => manager.pinged < MaxPingRounds
        /\ PingBranch(due)
    /\ UNCHANGED <<handles, callers, proc, connVars, codecVars, now, httpVars>>

\* pingInterval, in seconds
PingInterval == 30

\* eventLoop: if (now - lastPingTime >= pingInterval) on the clock
EventLoopPingTimed ==
    /\ proc = "up"
    /\ loop.pc = "ping"
    /\ PingBranch(seconds - manager.lastPingTime >= PingInterval)
    /\ UNCHANGED <<handles, callers, proc, connVars, codecVars, now, httpVars>>

\* The size of the keepalive text "ping".
KeepaliveSize == 4

\* eventLoop: one round of the ping loop, queueSend(i, "ping") included, and
\* lastPingTime = now after the last round
EventLoopPingClient ==
    /\ proc = "up"
    /\ loop.pc = "ping_client"
    /\ IF loop.i < Len(manager.clients)
       THEN /\ loop' = [loop EXCEPT !.i = @ + 1]
            /\ IF PoolIsConnected(manager, loop.i)
               THEN /\ manager.queueMutex = ""
                    /\ manager' = Enqueue(manager, loop.i, KeepaliveSize)
               ELSE UNCHANGED manager
       ELSE /\ loop' = [loop EXCEPT !.pc = "lock", !.i = 0]
            /\ manager' = [manager EXCEPT !.lastPingTime = loop.now]
    /\ UNCHANGED <<handles, callers, proc, connVars, codecVars, now, httpVars>>

\* eventLoop: std::unique_lock lock(queueMutex)
EventLoopLock ==
    /\ proc = "up"
    /\ loop.pc = "lock"
    /\ manager.queueMutex = ""
    /\ manager' = [manager EXCEPT !.queueMutex = "loop"]
    /\ loop' = [loop EXCEPT !.pc = "drain"]
    /\ UNCHANGED <<handles, callers, proc, connVars, codecVars, now, httpVars>>

\* The last entry of a queue.
Last(q) == q[Len(q)]

\* EventLoopDrain that takes the entry at the back of sendQueue.
EventLoopDrainBack ==
    /\ proc = "up"
    /\ loop.pc = "drain"
    /\ IF manager.sendQueue = <<>>
       THEN /\ manager' = [manager EXCEPT !.queueMutex = ""]
            /\ loop' = [loop EXCEPT !.pc = "poll", !.i = 0,
                                    !.end = Len(manager.clients)]
       ELSE /\ manager' = [manager EXCEPT !.sendQueue = SubSeq(@, 1, Len(@) - 1)]
            /\ loop' = IF /\ Last(manager.sendQueue).idx < Len(manager.clients)
                          /\ manager.clients[Last(manager.sendQueue).idx + 1] # <<>>
                       THEN [loop EXCEPT !.pc = "forward",
                                         !.cur = <<Last(manager.sendQueue)>>, !.off = 0]
                       ELSE loop
    /\ UNCHANGED <<handles, callers, proc, connVars, codecVars, now, httpVars>>

\* eventLoop: one round of while (!sendQueue.empty()) up to the check of the
\* slot, or the release of the lock and the start of the polling loop
EventLoopDrain ==
    /\ proc = "up"
    /\ loop.pc = "drain"
    /\ IF manager.sendQueue = <<>>
       THEN /\ manager' = [manager EXCEPT !.queueMutex = ""]
            /\ loop' = [loop EXCEPT !.pc = "poll", !.i = 0,
                                    !.end = Len(manager.clients)]
       ELSE /\ manager' = [manager EXCEPT !.sendQueue = Tail(@)]
            /\ loop' = IF /\ Head(manager.sendQueue).idx < Len(manager.clients)
                          /\ manager.clients[Head(manager.sendQueue).idx + 1] # <<>>
                       THEN [loop EXCEPT !.pc = "forward",
                                         !.cur = <<Head(manager.sendQueue)>>, !.off = 0]
                       ELSE loop
    /\ UNCHANGED <<handles, callers, proc, connVars, codecVars, now, httpVars>>

\* The ClientApp after one more frame of sendMessage(msg), off frames of it
\* having been written: sendMessage writes nothing without a webSocket.
ForwardFrame(client, msg, off) ==
    [client EXCEPT
        !.wire = IF client.webSocket THEN Append(@, PoolFrame(msg, off + 1)) ELSE @]

\* eventLoop: clients[idx]->sendMessage(msg), one frame of it
EventLoopForward ==
    /\ proc = "up"
    /\ loop.pc = "forward"
    /\ \E o \in Outcomes(manager.clients[loop.cur[1].idx + 1] = <<>>) :
        IF o = "crash" THEN Crash
        ELSE /\ manager' = IF o = "none" THEN manager
                           ELSE [manager EXCEPT !.clients[loop.cur[1].idx + 1] =
                                    ForwardFrame(@, loop.cur[1].msg, loop.off)]
             /\ loop' = IF /\ o = "done"
                           /\ manager.clients[loop.cur[1].idx + 1].webSocket
                           /\ loop.off + 1 < PoolFrameCount(loop.cur[1].msg.size)
                        THEN [loop EXCEPT !.off = @ + 1]
                        ELSE [loop EXCEPT !.pc = "drain", !.cur = <<>>, !.off = 0]
             /\ UNCHANGED proc
    /\ UNCHANGED <<handles, callers, connVars, codecVars, now, httpVars>>

\* eventLoop: for (auto &client : clients) if (client), or the end of the loop
EventLoopPoll ==
    /\ proc = "up"
    /\ loop.pc = "poll"
    /\ \E o \in Outcomes(loop.stale) :
        IF o = "crash" THEN Crash
        ELSE /\ loop' = IF loop.i >= loop.end
                        THEN [loop EXCEPT !.pc = "sleep", !.i = 0, !.end = 0,
                                          !.stale = FALSE]
                        ELSE IF manager.clients[loop.i + 1] # <<>>
                        THEN [loop EXCEPT !.pc = "run"]
                        ELSE [loop EXCEPT !.i = @ + 1]
             /\ UNCHANGED <<manager, proc>>
    /\ UNCHANGED <<handles, callers, connVars, codecVars, now, httpVars>>

\* eventLoop: client->run(), which changes nothing in the pool
EventLoopRun ==
    /\ proc = "up"
    /\ loop.pc = "run"
    /\ \E o \in Outcomes(loop.stale \/ manager.clients[loop.i + 1] = <<>>) :
        IF o = "crash" THEN Crash
        ELSE /\ loop' = [loop EXCEPT !.pc = "poll", !.i = @ + 1]
             /\ UNCHANGED <<manager, proc>>
    /\ UNCHANGED <<handles, callers, connVars, codecVars, now, httpVars>>

\* eventLoop: sleep_for(10 microseconds)
EventLoopSleep ==
    /\ proc = "up"
    /\ loop.pc = "sleep"
    /\ loop' = [loop EXCEPT !.pc = "while"]
    /\ UNCHANGED <<manager, handles, callers, proc, connVars, codecVars, now, httpVars>>

\* The steps of eventLoop but the forwarding of queued messages.
EventLoopIdle ==
    \/ EventLoopWhile \/ EventLoopPing \/ EventLoopPingClient \/ EventLoopLock
    \/ EventLoopDrain \/ EventLoopPoll \/ EventLoopRun \/ EventLoopSleep

\* new WebSocketClient(behavior, url) while fewer than MaxClients were added
AddClientSmall(t) ==
    /\ Len(manager.clients) < MaxClients
    /\ AddClient(t, WsUrls)

\* The threads T create and destroy handles.
AddRemove(T) ==
    \/ \E t \in T : AddClientSmall(t)
    \/ \E t \in T : AddClientConnect(t)
    \/ \E t \in T : AddClientCount(t)
    \/ \E t \in T : AddClientStart(t)
    \/ \E t \in T : RemoveClient(t)
    \/ \E t \in T : RemoveClientCount(t)
    \/ \E t \in T : RemoveClientStop(t)
    \/ \E t \in T : RemoveClientJoin(t)

\* The threads T queue messages.
Senders(T) ==
    \/ \E t \in T : SendMessage(t)
    \/ \E t \in T : QueueSend(t)

(***************************************************************************)
(* SpecPoolCap: one application thread creates handles without a URL, up   *)
(* to the limit of the pool and beyond, and destroys the first ones.       *)
(***************************************************************************)
\* The pool after PoolCap - CapHeadroom handles were created without a URL
\* by thread t1, the loop being at the top of a tick.
InitPoolCap ==
    /\ manager = [NewManager EXCEPT
                     !.clients = [i \in 1..(PoolCap - CapHeadroom) |-> NewPoolClient],
                     !.refCount = PoolCap - CapHeadroom,
                     !.running = TRUE, !.eventThread = TRUE]
    /\ handles = 0..(PoolCap - CapHeadroom - 1)
    /\ callers = [t \in Owners |-> IdleCaller]
    /\ loop = [NoLoop EXCEPT !.pc = "while"]
    /\ proc = "up"
    /\ ConnIdle
    /\ CodecIdle

PoolCapNext ==
    \/ \E t \in Owners : AddClient(t, {<<>>})
    \/ \E t \in Owners : AddClientConnect(t)
    \/ \E t \in Owners : AddClientCount(t)
    \/ \E t \in Owners : RemoveClient(t)
    \/ \E t \in Owners : RemoveClientCount(t)
    \/ EventLoopIdle

SpecPoolCap == InitPoolCap /\ [][PoolCapNext]_vars

(***************************************************************************)
(* SpecPool: two application threads create up to MaxClients handles on a  *)
(* ws:// URL and destroy them.                                             *)
(***************************************************************************)
InitPool == PoolStart(Threads) /\ ConnIdle /\ CodecIdle

PoolNext == AddRemove(Threads) \/ EventLoopIdle \/ EventLoopForward

SpecPool == InitPool /\ [][PoolNext]_vars

(***************************************************************************)
(* SpecPoolSend: thread t1 creates and destroys the handles, and both      *)
(* threads queue messages on them.                                         *)
(***************************************************************************)
PoolSendNext ==
    AddRemove(Owners) \/ Senders(Threads) \/ EventLoopIdle \/ EventLoopForward

SpecPoolSend == InitPool /\ [][PoolSendNext]_vars

(***************************************************************************)
(* SpecPoolJoin: SpecPoolSend with the scheduling of the threads.  The     *)
(* thread of eventLoop and every thread inside a call of the pool are      *)
(* scheduled again and again; no thread has to begin a call.               *)
(***************************************************************************)
\* The steps of thread t inside a call of the pool.
InCall(t) ==
    \/ AddClientConnect(t) \/ AddClientCount(t) \/ AddClientStart(t)
    \/ RemoveClientCount(t) \/ RemoveClientStop(t) \/ RemoveClientJoin(t)
    \/ QueueSend(t)

PoolFairness ==
    /\ WF_vars(EventLoopIdle \/ EventLoopForward)
    /\ \A t \in Threads : WF_vars(InCall(t))

SpecPoolJoin == InitPool /\ [][PoolSendNext]_vars /\ PoolFairness

(***************************************************************************)
(* SpecPoolAgain: thread t1 creates handles and destroys them, copies of   *)
(* destroyed handles included.                                             *)
(***************************************************************************)
PoolAgainNext ==
    \/ AddRemove(Owners)
    \/ \E t \in Owners : RemoveClientAgain(t)
    \/ EventLoopIdle
    \/ EventLoopForward

SpecPoolAgain == InitPool /\ [][PoolAgainNext]_vars

(***************************************************************************)
(* SpecPoolPing: thread t1 creates handles with and without a URL and      *)
(* destroys them while the clock advances over two ping intervals.         *)
(***************************************************************************)
\* The clock advances by PingTick seconds at a time, up to MaxPoolSeconds.
PingTick == 15

MaxPoolSeconds == 75

\* new WebSocketClient(behavior, url) with a ws:// URL or with the empty one
AddClientAny(t) ==
    /\ Len(manager.clients) < MaxClients
    /\ AddClient(t, WsUrls \cup {<<>>})

\* The steady clock advances by d seconds.
PoolTick(d) ==
    /\ proc = "up"
    /\ seconds + d <= MaxPoolSeconds
    /\ seconds' = seconds + d
    /\ UNCHANGED <<connVars, codecVars, now, poolVars,
                   httpManager, pending_requests, requests, httpLoop>>

PoolPingNext ==
    \/ \E t \in Owners : AddClientAny(t)
    \/ \E t \in Owners : AddClientConnect(t)
    \/ \E t \in Owners : AddClientCount(t)
    \/ \E t \in Owners : AddClientStart(t)
    \/ \E t \in Owners : RemoveClient(t)
    \/ \E t \in Owners : RemoveClientCount(t)
    \/ \E t \in Owners : RemoveClientStop(t)
    \/ \E t \in Owners : RemoveClientJoin(t)
    \/ EventLoopWhile \/ EventLoopPingTimed \/ EventLoopPingClient \/ EventLoopLock
    \/ EventLoopDrain \/ EventLoopForward \/ EventLoopPoll \/ EventLoopRun
    \/ EventLoopSleep
    \/ PoolTick(PingTick)

SpecPoolPing == InitPool /\ [][PoolPingNext]_vars

(***************************************************************************)
(* Claims about the frame codec, checked under SpecCodec.                  *)
(***************************************************************************)
\* The bytes before the payload in the encoded frame.
FrameHeaderSize == csize - cin.length

WholeFrameDecoded == cpc = "decoded" /\ ccut = csize

\* C1: decode applied to the output of encode(payload, opcode, fin = true)
\* succeeds and returns exactly (opcode, true, payload), for every mask key.
C1_RoundTrip ==
    (WholeFrameDecoded /\ cin.whole /\ cin.fin)
        => /\ cdec.d.ok
           /\ cdec.d.opCode = cin.opCode
           /\ cdec.d.fin = TRUE
           /\ cdec.d.message = cin.message

C1_Witness ==
    /\ WholeFrameDecoded /\ cin.whole /\ cin.fin /\ cdec.d.ok
    /\ cin.opCode = BINARY /\ cin.maskKey = <<18, 52, 86, 120>>
    /\ cin.message = <<0, 255>>
    /\ cdec.d.message = <<0, 255>>

\* C2: the encoder uses the 7-bit form for L <= 125, the 16-bit extension for
\* 126..65535 and the 64-bit one from 65536 on, so the frame has L + 6, L + 8
\* or L + 14 bytes, and decodeZeroCopy recovers exactly L.
C2_LengthTiers ==
    LET L == cin.length
        ext == IF L <= 125 THEN 0 ELSE IF L <= 65535 THEN 2 ELSE 8
    IN  /\ cpc # "input" =>
              /\ csize = L + 6 + ext
              /\ Len(cframe) = (IF cin.whole THEN csize ELSE 6 + ext)
              /\ cframe[2] % 128 = (IF L <= 125 THEN L
                                    ELSE IF L <= 65535 THEN 126 ELSE 127)
        /\ WholeFrameDecoded =>
              /\ cdec.zc.ok
              /\ cdec.zc.payloadLength = L
              /\ cdec.zc.payloadOffset = 6 + ext

C2_Witness ==
    /\ WholeFrameDecoded
    /\ cin.length = 65536
    /\ csize = 65550
    /\ cframe[2] = 255
    /\ cdec.zc.payloadLength = 65536

\* C3: every encoded frame has the MASK bit set, carries the mask key right
\* after the length field, and its i-th payload byte is payload[i] XOR
\* key[i mod 4], whatever the chunked path of the build.
C3_Masking ==
    cpc # "input" =>
        LET h == FrameHeaderSize
        IN  /\ cframe[2] >= 128
            /\ SubSeq(cframe, h - 3, h) = cin.maskKey
            /\ cin.whole =>
                 \A i \in 0..(cin.length - 1) :
                   cframe[h + i + 1] = Xor8(cin.message[i + 1], cin.maskKey[(i % 4) + 1])

C3_Witness ==
    /\ cpc = "encoded"
    /\ cin.build = "avx2"
    /\ cin.length = 49
    /\ cin.maskKey = <<18, 52, 86, 120>>
    /\ cframe[FrameHeaderSize + 49] = Xor8(cin.message[49], 18)
    /\ cframe[FrameHeaderSize + 49] # cin.message[49]

\* C4: on every strict prefix of a valid encoded frame decodeZeroCopy and
\* decode report 'incomplete' (return false).
C4_PrefixIncomplete ==
    (cpc = "decoded" /\ ccut < csize)
        => (~cdec.zc.ok /\ (cin.whole => ~cdec.d.ok))

C4_Witness ==
    /\ cpc = "decoded"
    /\ cin.length = 65536
    /\ ccut = 5
    /\ ~cdec.zc.ok


(***************************************************************************)
(* Claims about connect() and the handshake, checked under SpecApp.        *)
(***************************************************************************)
Fired(call) == {call.fired[i] : i \in 1..Len(call.fired)}

IsWs(url) == Len(url) >= 5 /\ SubSeq(url, 1, 5) = <<"w", "s", ":", "/", "/">>

IsWss(url) == Len(url) >= 6 /\ SubSeq(url, 1, 6) = <<"w", "s", "s", ":", "/", "/">>

\* C5: when connect() ends in a successful handshake, the open callback has
\* fired exactly once for the new connection, which is Connected.
C5_OpenOnce ==
    (lastCall.op = "connect" /\ "open" \in Fired(lastCall))
        => /\ lastCall.fired = <<"open">>
           /\ webSocket # <<>>
           /\ webSocket[1].opens = 1

\* connect("ws://h/c") has returned: open has run twice on a Connected connection.
C5_Witness ==
    /\ lastCall.op = "connect"
    /\ lastCall.fired = <<"open", "open">>
    /\ webSocket # <<>>
    /\ webSocket[1].opens = 2
    /\ webSocket[1].state = "CONNECTED"

\* A failing call fires failed once and nothing else, and leaves the
\* connection pointer and isConnected() as they were.
FailsCleanly ==
    /\ lastCall'.fired = <<"failed">>
    /\ webSocket' = webSocket
    /\ (~IsConnected => ~IsConnected')

\* C6: connect() on a URL that is neither ws:// nor wss://, or on wss://
\* without SSL, and a handshake response that lacks one of the three texts,
\* fire failed exactly once and never open, create no connection object and
\* leave isConnected() false; every outcome fires exactly one of open and
\* failed.
C6_FailurePaths ==
    [][/\ (Connect /\ ((~IsWs(lastCall'.arg) /\ ~IsWss(lastCall'.arg))
                          \/ (IsWss(lastCall'.arg) /\ ~ssl)))
            => FailsCleanly
       /\ (ReceiveHttpResponse /\ lastCall'.arg # ResponseTexts) => FailsCleanly
       /\ (Connect \/ ReceiveHttpResponse)
            => (Fired(lastCall') = {"open"} \/ Fired(lastCall') = {"failed"})]_vars

\* connect("wss://s") on a client built without SSL has fired failed, and
\* there is no connection object.
C6_Witness ==
    /\ ~ssl
    /\ lastCall.op = "connect"
    /\ IsWss(lastCall.arg)
    /\ lastCall.fired = <<"failed">>
    /\ webSocket = <<>>

(***************************************************************************)
(* Claims about the close handshake and reassembly, checked under Spec.    *)
(***************************************************************************)
\* The codes of the Close frames in the connection's send path.
SentCloseCodes(c) ==
    {d.message[1] * 256 + d.message[2] :
        d \in {x \in {Decode(c.sent[i], Len(c.sent[i])) : i \in 1..Len(c.sent)} :
                  x.ok /\ x.opCode = CLOSE /\ Len(x.message) >= 2}}

\* C7: a local close from Connected moves the connection to Closing and
\* fires no close callback; a Close frame received in Closing moves it to
\* Closed and fires the close callback; the close callback never fires a
\* second time, whatever frames, close calls or destruction follow.
C7_CloseOnce ==
    [][/\ (webSocket # <<>> /\ webSocket[1].state = "CONNECTED" /\ WsClose)
            => /\ webSocket'[1].state = "CLOSING"
               /\ webSocket'[1].closes = <<>>
       /\ (/\ webSocket # <<>>
           /\ webSocket[1].state = "CLOSING"
           /\ \E f \in RxFrames : f.opCode = CLOSE /\ ReceiveFrame(f))
            => /\ webSocket'[1].state = "CLOSED"
               /\ Len(webSocket'[1].closes) = 1
       /\ (webSocket' # <<>>) => Len(webSocket'[1].closes) <= 1]_vars

\* close(3000, "x") was called on the Connected connection, the peer's Close
\* frame arrived, the callback has fired once, and the app was destroyed.
C7_Witness ==
    /\ ~alive
    /\ webSocket # <<>>
    /\ webSocket[1].origin = <<[code |-> 3000, reason |-> <<120>>]>>
    /\ webSocket[1].received = 1
    /\ webSocket[1].state = "CLOSED"
    /\ Len(webSocket[1].closes) = 1

\* C8: when a Close was initiated from Connected, by a local close or by the
\* peer's Close frame, a Close frame carrying its code has been written to
\* the send path by the time the connection is Closed.
C8_CloseFrameWritten ==
    (webSocket # <<>> /\ webSocket[1].state = "CLOSED" /\ webSocket[1].origin # <<>>)
        => webSocket[1].origin[1].code \in SentCloseCodes(webSocket[1])

\* The handshake started by close(1000) ended in Closed with an empty send path.
C8_Witness ==
    /\ webSocket # <<>>
    /\ webSocket[1].state = "CLOSED"
    /\ webSocket[1].origin = <<[code |-> 1000, reason |-> <<>>]>>
    /\ webSocket[1].closes # <<>>
    /\ webSocket[1].sent = <<>>

\* C9: the code and reason given to the close callback are those of the
\* Close that moved the connection from Connected to Closing.
C9_OriginatingCode ==
    (webSocket # <<>> /\ webSocket[1].closes # <<>>)
        => webSocket[1].closes[1] = webSocket[1].origin[1]

\* close(3000, "x"), then destruction: the callback got 1000, "Client shutdown".
C9_Witness ==
    /\ ~alive
    /\ webSocket # <<>>
    /\ webSocket[1].origin = <<[code |-> 3000, reason |-> <<120>>]>>
    /\ webSocket[1].closes = <<[code |-> 1000, reason |-> ClientShutdown]>>

\* C10: while the received frames are well sequenced, the messages delivered
\* are those of the reference reassembly: one message per final frame, only
\* once the final frame is in, its payload the fragments' payloads in
\* arrival order, its opcode that of the first fragment; a fragment is
\* active exactly while a message is unfinished.
C10_Reassembly ==
    (webSocket # <<>> /\ ~webSocket[1].ref.bad)
        => /\ webSocket[1].messages = webSocket[1].ref.out
           /\ webSocket[1].inFragment = webSocket[1].ref.active

\* Text "AB", Continuation "CD", final Continuation "EF": one Text "ABCDEF".
C10_Witness ==
    /\ webSocket # <<>>
    /\ webSocket[1].received = 3
    /\ ~webSocket[1].ref.bad
    /\ webSocket[1].messages = <<[payload |-> <<65, 66, 67, 68, 69, 70>>, opCode |-> TEXT]>>
    /\ ~webSocket[1].inFragment


(***************************************************************************)
(* Claims about protocol violations, checked under Spec.                   *)
(***************************************************************************)
\* Frame f breaks the sequencing rules on connection c.
Offending(f, c) ==
    \/ f.opCode = CONTINUATION /\ ~c.inFragment
    \/ f.opCode # CONTINUATION /\ c.inFragment

\* C11: on a Connected connection, a Continuation frame with no fragment
\* active, and a Text, Binary, Close, Ping or Pong frame with a fragment
\* active, start a close with code 1002 (the connection leaves Connected
\* for Closing with 1002 as the originating code) and fire no message
\* callback, neither for the frame nor for the unfinished fragment.
C11_ViolationCloses1002 ==
    [][(/\ webSocket # <<>>
        /\ webSocket[1].state = "CONNECTED"
        /\ \E f \in RxFrames : Offending(f, webSocket[1]) /\ ReceiveFrame(f))
        => /\ webSocket'[1].state = "CLOSING"
           /\ Len(webSocket'[1].origin) = 1
           /\ webSocket'[1].origin[1].code = 1002
           /\ webSocket'[1].messages = webSocket[1].messages]_vars

\* Text "AB" not final, then a frame that is no Continuation: the close
\* with 1002 "Fragment not finished" has started and nothing was delivered.
C11_Witness ==
    /\ webSocket # <<>>
    /\ webSocket[1].received = 2
    /\ webSocket[1].state = "CLOSING"
    /\ webSocket[1].origin = <<[code |-> 1002, reason |-> FragmentNotFinished]>>
    /\ webSocket[1].fragmentBuffer = <<65, 66>>
    /\ webSocket[1].messages = <<>>

\* C12: once a protocol violation has been detected on a Connected
\* connection (its close with code 1002 has started), the close callback has
\* fired with code 1002, with no further input.
C12_ViolationFiresClose ==
    (webSocket # <<>> /\ webSocket[1].origin # <<>>
        /\ webSocket[1].origin[1].code = 1002)
        => /\ webSocket[1].closes # <<>>
           /\ webSocket[1].closes[1].code = 1002

\* A Continuation frame was the first frame received: the connection is in
\* Closing and the close callback has not fired.
C12_Witness ==
    /\ webSocket # <<>>
    /\ webSocket[1].received = 1
    /\ webSocket[1].state = "CLOSING"
    /\ webSocket[1].origin = <<[code |-> 1002, reason |-> UnexpectedContinuation]>>
    /\ webSocket[1].closes = <<>>


(***************************************************************************)
(* Claims about Ping and Pong, checked under Spec.                         *)
(***************************************************************************)
\* The bytes x written to the socket are one whole final frame with the
\* given opcode and unmasked payload.
IsFrame(x, opCode, payload) ==
    /\ Len(x) = GetEncodedSize(Len(payload))
    /\ Decode(x, Len(x)) = [ok |-> TRUE, opCode |-> opCode, fin |-> TRUE,
                            message |-> payload]

\* C14: a Ping frame received on a Connected connection with no fragment
\* active is answered with exactly one Pong frame whose unmasked payload is
\* the Ping's unmasked payload, and fires no message callback.
C14_PingAnswered ==
    [][\A f \in RxFrames :
        (/\ f.opCode = PING
         /\ webSocket # <<>>
         /\ webSocket[1].state = "CONNECTED"
         /\ ~webSocket[1].inFragment
         /\ ReceiveFrame(f))
        => /\ Len(webSocket'[1].sent) = Len(webSocket[1].sent) + 1
           /\ SubSeq(webSocket'[1].sent, 1, Len(webSocket[1].sent)) = webSocket[1].sent
           /\ IsFrame(webSocket'[1].sent[Len(webSocket'[1].sent)], PONG, f.payload)
           /\ webSocket'[1].messages = webSocket[1].messages]_vars

\* The masked Ping "PQ" was the first frame received and one Pong "PQ" has
\* been written.
C14_Witness ==
    /\ webSocket # <<>>
    /\ webSocket[1].received = 1
    /\ webSocket[1].state = "CONNECTED"
    /\ Len(webSocket[1].sent) = 1
    /\ IsFrame(webSocket[1].sent[1], PONG, <<80, 81>>)
    /\ webSocket[1].messages = <<>>


(***************************************************************************)
(* Claims about isAlive, checked under SpecAlive.                          *)
(***************************************************************************)
\* C15: isAlive(timeout) returns true while the time since the last Pong
\* received (since construction when there was none) has not exceeded
\* timeout, and false once it exceeds timeout.
C15_AliveUntilExceeded ==
    (webSocket # <<>> /\ webSocket[1].aliveSeen # <<>>)
        => (webSocket[1].aliveSeen[1].result
              <=> (webSocket[1].aliveSeen[1].elapsed <= webSocket[1].aliveSeen[1].timeout))

\* isAlive(1) was called exactly 1 ms after the last Pong and returned false.
C15_Witness ==
    /\ webSocket # <<>>
    /\ webSocket[1].received >= 1
    /\ webSocket[1].lastPongTime >= 1
    /\ webSocket[1].aliveSeen = <<[timeout |-> 1, elapsed |-> 1, result |-> FALSE]>>


(***************************************************************************)
(* Claims about send(), checked under SpecSend.                            *)
(***************************************************************************)
\* The frames written to the socket, decoded: one write is one frame.
SentFrames(c) == [i \in 1..Len(c.sent) |-> Decode(c.sent[i], Len(c.sent[i]))]

RECURSIVE Concat(_, _)
\* The payloads of the first n frames of ds, one after the other.
Concat(ds, n) == IF n = 0 THEN <<>> ELSE Concat(ds, n - 1) \o ds[n].message

\* ceil(size / MaxFrameSize)
FrameCount(size) == (size + MaxFrameSize - 1) \div MaxFrameSize

\* The frames ds are those of one send of Pattern(size) with opcode op.
FragmentsOf(ds, sent, size, op) ==
    /\ Len(ds) = IF size <= MaxFrameSize THEN 1 ELSE FrameCount(size)
    /\ \A i \in 1..Len(ds) :
        /\ ds[i].ok
        /\ Len(sent[i]) = GetEncodedSize(Len(ds[i].message))
        /\ Len(ds[i].message) <= MaxFrameSize
        /\ ds[i].opCode = IF i = 1 THEN op ELSE CONTINUATION
        /\ ds[i].fin = (i = Len(ds))
    /\ Concat(ds, Len(ds)) = Pattern(size)

\* C13: send(message, opcode) on a Connected connection writes one final
\* frame with the opcode when the message has at most 32768 bytes; for a
\* longer one it writes ceil(size/32768) frames in order, each of at most
\* 32768 payload bytes, the first with the opcode and the others
\* Continuation, fin only on the last, whose payloads one after the other
\* are the message.
C13_SendFragments ==
    (webSocket # <<>> /\ webSocket[1].sendSeen # <<>>)
        => /\ webSocket[1].sendSeen[1].ok
           /\ FragmentsOf(SentFrames(webSocket[1]), webSocket[1].sent,
                          webSocket[1].sendSeen[1].size,
                          webSocket[1].sendSeen[1].opCode)

\* A Binary message of 2 * 32768 + 1 bytes has been sent in three writes.
C13_Witness ==
    /\ webSocket # <<>>
    /\ webSocket[1].sendSeen =
           <<[size |-> (2 * MaxFrameSize) + 1, opCode |-> BINARY, ok |-> TRUE]>>
    /\ Len(webSocket[1].sent) = 3
    /\ Len(webSocket[1].sent[3]) = GetEncodedSize(1)


(***************************************************************************)
(* Claims about the limit of the pool, checked under SpecPoolCap.          *)
(***************************************************************************)
\* Thread t begins an addClient that passes the check of the limit.
Accepted(t) == callers[t].pc = "idle" /\ callers'[t].pc = "add_connect"

\* Thread t makes an addClient that throws.
Rejected(t) == ~callers[t].thrown /\ callers'[t].thrown

\* C16: addClient throws exactly when the number of live connections (added
\* and not yet removed) is 100; with fewer than 100 live connections, also
\* after removals, it succeeds.
C16_RejectedAtCap ==
    [][\A t \in DOMAIN callers :
          /\ Accepted(t) => Cardinality(Live(manager)) < PoolCap
          /\ Rejected(t) => Cardinality(Live(manager)) = PoolCap]_vars

\* An addClient has thrown with 100 live connections.
C16_Witness ==
    \E t \in DOMAIN callers :
        /\ callers[t].thrown
        /\ Cardinality(Live(manager)) = PoolCap
        /\ Cardinality(handles) = PoolCap

\* C17: an addClient that throws because of the limit returns at once and
\* leaves the pool as it was: clients and every ClientApp in it, refCount,
\* running, the thread, sendQueue.
C17_RejectedChangesNothing ==
    [][\A t \in DOMAIN callers :
          Rejected(t) =>
              /\ manager' = manager
              /\ handles' = handles
              /\ loop' = loop
              /\ proc' = proc
              /\ callers' = [callers EXCEPT ![t].thrown = TRUE]
              /\ callers'[t].pc = "idle"]_vars

\* An addClient has thrown while the loop was in its polling loop.
C17_Witness ==
    \E t \in DOMAIN callers :
        /\ callers[t].thrown
        /\ callers[t].pc = "idle"
        /\ Len(manager.clients) = PoolCap
        /\ loop.pc = "run"
        /\ manager.running


(***************************************************************************)
(* Claims about the background thread, checked under SpecPool.             *)
(***************************************************************************)
\* No thread is in addClient or removeClient.
Quiet == \A t \in DOMAIN callers : callers[t].pc \in {"idle", "queue"}

\* The thread of eventLoop has been started and has not returned from it.
ThreadRunning == manager.eventThread /\ loop.pc \notin {"none", "exited"}

\* C18: whenever no addClient or removeClient is in progress, the
\* background thread is running if and only if at least one handle is live.
C18_ThreadIffLive ==
    (proc = "up" /\ Quiet) => (ThreadRunning <=> handles # {})

\* Both handles were created, the first was destroyed, and the thread that
\* the first addClient started is running.
C18_Witness ==
    /\ proc = "up"
    /\ Quiet
    /\ handles = {1}
    /\ manager.clients[1] = <<>>
    /\ ThreadRunning
    /\ manager.refCount = 1


(***************************************************************************)
(* Claims about the stop of the background thread, checked under           *)
(* SpecPoolJoin.                                                           *)
(***************************************************************************)
\* C19: when a removeClient has taken refCount to zero, the loop leaves its
\* tick, eventLoop returns and the join returns to the caller, wherever in
\* its tick the loop is and whatever the other threads queue.
C19_JoinReturns ==
    \A t \in Threads : (callers[t].pc = "rm_stop") ~> (callers[t].pc = "idle")

\* A removeClient waits in join, eventLoop has returned and the other
\* thread is in queueSend.
C19_Witness ==
    /\ proc = "up"
    /\ callers["t1"].pc = "rm_join"
    /\ loop.pc = "exited"
    /\ callers["t2"].pc = "queue"


(***************************************************************************)
(* Claims about the send queue, checked under SpecPoolSend.                *)
(***************************************************************************)
\* The frames w written by one connection are those of messages taken in the
\* order of their queueing (the order of their ids), each once and whole:
\* a first frame follows a final frame of an earlier message, a
\* Continuation frame follows a frame of its own message that is not final.
InQueueOrder(w) ==
    \A k \in 1..Len(w) :
        IF k = 1 THEN w[k].opCode # CONTINUATION
        ELSE IF w[k].opCode = CONTINUATION
        THEN w[k].id = w[k - 1].id /\ ~w[k - 1].fin
        ELSE w[k].id > w[k - 1].id /\ w[k - 1].fin

\* C20: for every connection, the messages that the loop forwards to it
\* are written in the order in which queueSend queued them, none twice, and
\* the frames of one message are not interleaved with those of another.
C20_QueueOrder ==
    \A i \in Live(manager) : InQueueOrder(manager.clients[i].wire)

\* A connection has written a message of two frames and then another
\* message, both queued before the loop took the lock.
C20_Witness ==
    \E i \in Live(manager) :
        /\ Len(manager.clients[i].wire) = 3
        /\ manager.clients[i].wire[2].opCode = CONTINUATION
        /\ manager.clients[i].wire[3].id = manager.clients[i].wire[1].id + 1
        /\ manager.pinged = 0


(***************************************************************************)
(* Claims about removals during a tick, checked under SpecPool.            *)
(***************************************************************************)
\* The step is one of the loop, not of an application thread.
LoopStep == callers' = callers

\* The loop makes the call it is at: sendMessage or run on the slot it has
\* tested.
LoopCalls(pc) == loop.pc = pc /\ LoopStep /\ (loop' # loop \/ proc' # proc)

\* C21: the loop never calls into a ClientApp that removeClient has
\* destroyed: it skips the keepalive, the queue entries and the polling of a
\* removed handle.
C21_NoCallAfterRemove ==
    [][/\ LoopCalls("forward") => manager.clients[loop.cur[1].idx + 1] # <<>>
       /\ LoopCalls("run") => manager.clients[loop.i + 1] # <<>>]_vars

\* The polling loop is at a slot that a removeClient in progress has reset
\* before the loop tested it.
C21_Witness ==
    /\ proc = "up"
    /\ loop.pc = "poll"
    /\ loop.i < loop.end
    /\ manager.clients[loop.i + 1] = <<>>
    /\ \E t \in DOMAIN callers : callers[t].pc = "rm_count" /\ callers[t].idx = loop.i

\* C22: every access to clients and to sendQueue is made by a thread that
\* holds the mutex: a write of clients is made by the holder of queueMutex,
\* and sendQueue is written by the loop holding it or by a queueSend that
\* takes it.
C22_AccessUnderMutex ==
    [][/\ manager'.clients # manager.clients
           => (manager.queueMutex = "loop" /\ LoopStep)
       /\ manager'.sendQueue # manager.sendQueue
           => IF manager.queueMutex = "loop" THEN LoopStep
              ELSE manager.queueMutex = ""]_vars

\* The loop holds queueMutex in its drain while an application thread is
\* between emplace_back and connect of addClient.
C22_Witness ==
    /\ proc = "up"
    /\ manager.queueMutex = "loop"
    /\ loop.pc = "drain"
    /\ \E t \in DOMAIN callers : callers[t].pc = "add_connect"

(***************************************************************************)
(* Claims about repeated removals, checked under SpecPoolAgain.            *)
(***************************************************************************)
\* C23: removeClient on a handle that was removed already changes neither
\* refCount nor the running thread nor another connection: with no call in
\* progress refCount is the number of live handles, and the thread runs
\* while a handle is live.
C23_RemoveIdempotent ==
    (proc = "up" /\ Quiet)
        => /\ manager.refCount = Cardinality(handles)
           /\ handles # {} => ThreadRunning

\* The first handle has been removed twice and the second is live.
C23_Witness ==
    /\ proc = "up"
    /\ Quiet
    /\ handles = {1}
    /\ manager.clients[1] = <<>>
    /\ manager.refCount = 0


(***************************************************************************)
(* The HTTP client of src/src/HttpClient.h.  Text is a sequence of         *)
(* one-character strings; a protocol word that holds no separator          *)
(* ("HTTP/1.1", "Content-Length", "OK") is written as one element.         *)
(* Offsets are the C++ ones: offset i is the sequence index i + 1, and     *)
(* std::string::npos is -1, so that npos + 2 is 1 as in size_t.            *)
(***************************************************************************)
CRLF == <<"\r", "\n">>

HeaderTerminator == <<"\r", "\n", "\r", "\n">>

RECURSIVE FindStr(_, _, _)
\* s.find(pat, start): the first offset >= start where pat occurs, or -1
FindStr(s, pat, start) ==
    IF start + Len(pat) > Len(s) THEN -1
    ELSE IF SubSeq(s, start + 1, start + Len(pat)) = pat THEN start
    ELSE FindStr(s, pat, start + 1)

Digits == {"0", "1", "2", "3", "4", "5", "6", "7", "8", "9"}

DigitValue(c) == CHOOSE d \in 0..9 : ToString(d) = c

RECURSIVE SkipSpace(_, _)
\* the first index at or after i that holds no white space
SkipSpace(s, i) ==
    IF i <= Len(s) /\ s[i] \in {" ", "\t"} THEN SkipSpace(s, i + 1) ELSE i

RECURSIVE StoiDigits(_, _, _)
StoiDigits(s, i, acc) ==
    IF i > Len(s) \/ s[i] \notin Digits THEN acc
    ELSE StoiDigits(s, i + 1, acc * 10 + DigitValue(s[i]))

\* std::stoi(s): skips white space, reads the leading digits and ignores what
\* follows them; throws std::invalid_argument (ok = FALSE) without a digit.
\* The texts of the model carry no sign and no number that overflows an int.
Stoi(s) ==
    LET i == SkipSpace(s, 1)
    IN  IF i > Len(s) \/ s[i] \notin Digits THEN [ok |-> FALSE, value |-> 0]
        ELSE [ok |-> TRUE, value |-> StoiDigits(s, i, 0)]

\* stoi inside try { } catch (...) { x = -1; }
StoiOrMinusOne(s) == IF Stoi(s).ok THEN Stoi(s).value ELSE -1

RECURSIVE TrimFront(_)
TrimFront(v) == IF v # <<>> /\ Head(v) \in {" ", "\t"} THEN TrimFront(Tail(v)) ELSE v

RECURSIVE TrimBack(_)
TrimBack(v) ==
    IF v # <<>> /\ v[Len(v)] \in {" ", "\t"} THEN TrimBack(SubSeq(v, 1, Len(v) - 1)) ELSE v

(***************************************************************************)
(* HttpParsedUrl::parse and HttpClient::connect.                           *)
(***************************************************************************)
\* HttpParsedUrl::parse.  Without a known prefix the ssl field is left
\* uninitialised; connect() does not read it then.
HttpParse(url) ==
    LET isHttps == Len(url) >= 8
                   /\ Substr(url, 0, 8) = <<"h", "t", "t", "p", "s", ":", "/", "/">>
        isHttp == Len(url) >= 7 /\ Substr(url, 0, 7) = <<"h", "t", "t", "p", ":", "/", "/">>
    IN  IF ~isHttps /\ ~isHttp
        THEN [host |-> <<>>, port |-> <<>>, path |-> <<>>, ssl |-> FALSE]
        ELSE
        LET start == IF isHttps THEN 8 ELSE 7
            colonPos == Find(url, ":", start)
            slashPos == Find(url, "/", start)
            hasPort == colonPos # -1 /\ (slashPos = -1 \/ colonPos < slashPos)
            portEnd == IF slashPos # -1 THEN slashPos ELSE Len(url)
        IN  [host |-> IF hasPort THEN Substr(url, start, colonPos - start)
                      ELSE Substr(url, start, portEnd - start),
             port |-> IF hasPort THEN Substr(url, colonPos + 1, portEnd - colonPos - 1)
                      ELSE IF isHttps THEN <<"4", "4", "3">> ELSE <<"8", "0">>,
             path |-> IF slashPos # -1 THEN Substr(url, slashPos, Len(url)) ELSE <<"/">>,
             ssl |-> isHttps]

(***************************************************************************)
(* HttpClient::readResponse.  Its locals are a record:                     *)
(*   response_buffer, headers_parsed, status_code, status_message,         *)
(*   response_headers, content_length.                                     *)
(* The function-scope header_end (line 299) stays 0: the offset of the     *)
(* terminator is stored in the header_end the if-block declares (328).     *)
(***************************************************************************)
\* headers_part is a string_view of the temporary that substr returned, which
\* is destroyed at the end of the declaration (line 330): every later read of
\* it is a read of freed storage, which holds the header text still (intact)
\* or whatever has been written there since.
HeadersPart(buf, header_end, intact) ==
    IF intact THEN Substr(buf, 0, header_end) ELSE [i \in 1..header_end |-> "?"]

\* lines 331..347: the status line
StatusLine(hp, r) ==
    LET status_end == FindStr(hp, CRLF, 0)
        status_line == Substr(hp, 0, status_end)
        space1 == Find(status_line, " ", 0)
        space2 == Find(status_line, " ", space1 + 1)
    IN  IF status_end = -1 \/ space1 = -1 \/ space2 = -1 THEN r
        ELSE [r EXCEPT
                !.status_code =
                    StoiOrMinusOne(Substr(status_line, space1 + 1, space2 - space1 - 1)),
                !.status_message = Substr(status_line, space2 + 1, Len(status_line))]

\* lines 354..370: one header line
HeaderLine(line, r) ==
    LET colon == Find(line, ":", 0)
        key == Substr(line, 0, colon)
        value == TrimBack(TrimFront(Substr(line, colon + 1, Len(line))))
    IN  IF colon = -1 THEN r
        ELSE [r EXCEPT
                !.response_headers = Append(@, <<key, value>>),
                !.content_length =
                    IF key = <<"Content-Length">> THEN StoiOrMinusOne(value) ELSE @]

RECURSIVE HeaderLines(_, _, _, _)
\* lines 351..372: while (pos < header_end), one line up to the next "\r\n"
\* of headers_part, which ends before the terminator
HeaderLines(hp, pos, header_end, r) ==
    IF pos >= header_end \/ FindStr(hp, CRLF, pos) = -1 THEN r
    ELSE HeaderLines(hp, FindStr(hp, CRLF, pos) + 2, header_end,
                     HeaderLine(Substr(hp, pos, FindStr(hp, CRLF, pos) - pos), r))

\* lines 329..377, for the terminator found at header_end
ParseHeaders(hp, header_end, r) ==
    [HeaderLines(hp, FindStr(hp, CRLF, 0) + 2, header_end, StatusLine(hp, r))
        EXCEPT !.headers_parsed = TRUE,
               !.response_buffer = Substr(r.response_buffer, header_end + 4,
                                          Len(r.response_buffer))]

\* lines 325..378: the bytes of one read are appended and the headers parsed
\* once the terminator is in the buffer
Appended(r, data, intact) ==
    LET buf == r.response_buffer \o data
        header_end == FindStr(buf, HeaderTerminator, 0)
        r1 == [r EXCEPT !.response_buffer = buf]
    IN  IF r.headers_parsed \/ header_end = -1 THEN r1
        ELSE ParseHeaders(HeadersPart(buf, header_end, intact), header_end, r1)

\* lines 385..407, after the read loop: what readResponse does with the
\* buffer.  "throw": substr(4, ..) of a buffer shorter than 4 bytes throws
\* std::out_of_range, which nothing catches.
EndOfResponse(r) ==
    LET size == Len(r.response_buffer)
        header_end == 0
        body_start == header_end + 4
        body_size == IF r.content_length # -1 THEN r.content_length ELSE size - body_start
    IN  IF r.headers_parsed
           /\ (r.content_length = -1 \/ size >= header_end + 4 + r.content_length)
        THEN IF body_start > size THEN [kind |-> "throw", reply |-> <<>>]
             ELSE [kind |-> "reply",
                   reply |-> <<[status_code |-> r.status_code,
                                status_message |-> r.status_message,
                                headers |-> r.response_headers,
                                body |-> Substr(r.response_buffer, body_start, body_size)]>>]
        ELSE IF ~r.headers_parsed /\ r.response_buffer # <<>>
        THEN [kind |-> "reply",
              reply |-> <<[status_code |-> 200, status_message |-> <<"OK">>,
                           headers |-> <<>>, body |-> r.response_buffer]>>]
        ELSE [kind |-> "none", reply |-> <<>>]

(***************************************************************************)
(* The URLs and the responses of the HTTP model.                           *)
(***************************************************************************)
\* http://h/p
UrlPlain == <<"h", "t", "t", "p", ":", "/", "/", "h", "/", "p">>

\* https://h
UrlTls == <<"h", "t", "t", "p", "s", ":", "/", "/", "h">>

\* ftp://h/
UrlOther == <<"f", "t", "p", ":", "/", "/", "h", "/">>

\* http://h:x/
UrlBadPort == <<"h", "t", "t", "p", ":", "/", "/", "h", ":", "x", "/">>

HttpUrls == {UrlPlain, UrlTls, UrlOther, UrlBadPort}

OkLine == <<"HTTP/1.1", " ", "2", "0", "0", " ", "OK">>

MovedLine == <<"HTTP/1.1", " ", "3", "0", "1", " ", "Moved">>

ServerHeader == <<"Server", ":", " ", "x">>

DateHeader == <<"Date", ":", " ", "y">>

LocationHeader == <<"Location", ":", " ", "/", "q">>

LengthHeader(n) == <<"Content-Length", ":", " ", ToString(n)>>

\* A response head: the status line, two header lines and the terminator.
ResponseHead(status, h1, h2) == status \o CRLF \o h1 \o CRLF \o h2 \o HeaderTerminator

\* The first n bytes of the body "abcdef"
BodyBytes(n) == SubSeq(<<"a", "b", "c", "d", "e", "f">>, 1, n)

Response(status, h1, h2, declared, len) ==
    [head |-> ResponseHead(status, h1, h2), body |-> BodyBytes(len), declared |-> declared]

\* Responses with Content-Length: N and N body bytes, or more; in the last
\* one Content-Length is the last header line
DeclaredResponses ==
    {Response(OkLine, LengthHeader(d[1]), ServerHeader, d[1], d[2]) :
        d \in {<<0, 0>>, <<2, 2>>, <<5, 5>>, <<2, 6>>}}
    \cup {Response(OkLine, ServerHeader, LengthHeader(5), 5, 5)}

\* Responses without Content-Length, whose body ends at the peer's close
UndeclaredResponses ==
    {Response(OkLine, ServerHeader, DateHeader, -1, len) : len \in {0, 2, 4, 6}}

\* A 301 response with a Location header
RedirectResponses ==
    {Response(MovedLine, LocationHeader, ServerHeader, -1, len) : len \in {4}}

HttpResponses == DeclaredResponses \cup UndeclaredResponses \cup RedirectResponses

\* text as one chunk, or cut in two after k bytes
Split(text, k) ==
    IF k <= 0 \/ k >= Len(text) THEN <<text>>
    ELSE <<SubSeq(text, 1, k), SubSeq(text, k + 1, Len(text))>>

\* The ways the peer sends a response: whole, cut inside the terminator, cut
\* between head and body, cut after the first body byte; resp is the response
\* and cut the length of the first chunk (0: whole).
ScriptsOf(resp) ==
    {[chunks |-> Split(resp.head \o resp.body, k), resp |-> resp] :
        k \in {0, Len(resp.head) - 2, Len(resp.head), Len(resp.head) + 1}}

HttpScripts == UNION {ScriptsOf(resp) : resp \in HttpResponses}

\* HttpRequest is called no more than MaxRequests times.
MaxRequests == 2

\* The reads of a response are followed for one request.
OneRequest == 1

\* The clock of the HTTP model stops at MaxSeconds.
MaxSeconds == 62

(***************************************************************************)
(* HttpClientPool::HttpRequest, processHttpRequests and                    *)
(* HttpManager::eventLoop.  A request of `requests` is a record:           *)
(*   pc          where its caller is in HttpRequest: "count", "connect",   *)
(*               "push", "returned", or "threw" (an exception left it);    *)
(*   url, state, socket_fd (the descriptor is open), use_ssl, start_time   *)
(*               the fields of the HttpClient and of the PendingRequest;   *)
(*   promise     the replies handed to promise::set_value, in order;       *)
(*   failure     the transport failure the request met, "" without one:    *)
(*               an outcome of connect() other than "inprogress", or       *)
(*               "socket", "tls", "write" in process();                     *)
(*   conn, rx, eof, script, resp                                           *)
(*               the peer: how the TCP connect ended ("pending", "ok",     *)
(*               "error"), the bytes the socket holds unread, whether the  *)
(*               peer has closed, the chunks it has yet to send and the    *)
(*               response they make up.                                    *)
(***************************************************************************)
RequestIds == 1..MaxRequests

\* A response is its head and its body, with the length its head declares
\* (-1: none) kept aside.
NoResponse == [head |-> <<>>, body |-> <<>>, declared |-> -1]

\* The request of a call of HttpRequest before its connect; visited lists the
\* values that were assigned to the state of its client.
NewRequest(url) ==
    [pc |-> "count", url |-> url, state |-> "IDLE", socket_fd |-> FALSE,
     use_ssl |-> FALSE, start_time |-> 0, promise |-> <<>>, failure |-> "",
     conn |-> "pending", rx |-> <<>>, eof |-> FALSE, script |-> <<>>, resp |-> NoResponse,
     visited |-> <<>>]

\* HttpReply reply; reply.status_code = -1;
FailureReply ==
    [status_code |-> -1, status_message |-> <<>>, headers |-> <<>>, body |-> <<>>]

\* The process has not been ended by std::terminate.
HttpUp == httpLoop.pc # "terminated"

\* The callback of HttpRequest (lines 557..561) on the request q
Resolved(q, reply) == [q EXCEPT !.promise = Append(@, reply)]

\* HttpManager::start() and the promise of a new request (lines 550..553)
HttpRequestStart(urls, max) ==
    /\ HttpUp
    /\ Len(requests) < max
    /\ \E url \in urls : requests' = Append(requests, NewRequest(url))
    /\ LET first == httpManager.refCount + 1 = 1 /\ ~httpManager.running
       IN  /\ httpManager' = [httpManager EXCEPT
                                 !.refCount = @ + 1,
                                 !.running = IF first THEN TRUE ELSE @,
                                 !.eventThread = IF first THEN "running" ELSE @]
           /\ httpLoop' = IF first THEN [NoHttpLoop EXCEPT !.pc = "while"] ELSE httpLoop
    /\ UNCHANGED <<pending_requests, seconds, connVars, codecVars, now, poolVars>>

\* ++manager.request_count (line 555)
HttpRequestCount(r) ==
    /\ HttpUp
    /\ r \in DOMAIN requests
    /\ requests[r].pc = "count"
    /\ requests' = [requests EXCEPT ![r].pc = "connect"]
    /\ httpManager' = [httpManager EXCEPT !.request_count = @ + 1]
    /\ UNCHANGED <<pending_requests, httpLoop, seconds, connVars, codecVars, now, poolVars>>

\* How HttpClient::connect can end for a parsed URL: "nohost" (line 116),
\* "threw" (std::stoi of the port, line 134), "unresolved" (getaddrinfo,
\* lines 146..154), "refused" (::connect, lines 161..166) or "inprogress".
ConnectOutcomes(parsed) ==
    IF parsed.host = <<>> THEN {"nohost"}
    ELSE IF ~Stoi(parsed.port).ok THEN {"threw"}
    ELSE {"unresolved", "refused", "inprogress"}

\* The request after connect(url) ended in outcome o and, when it returned
\* false, after the callback got the reply with status_code -1 (576..581);
\* script is what the peer will answer.
Connected(q, parsed, o, script) ==
    IF o = "threw" THEN [q EXCEPT !.pc = "threw", !.failure = o]
    ELSE IF o = "inprogress"
    THEN [q EXCEPT !.pc = "push", !.state = "CONNECTING", !.socket_fd = TRUE,
                   !.use_ssl = parsed.ssl, !.start_time = seconds,
                   !.script = script.chunks, !.resp = script.resp,
                   !.visited = Append(@, "CONNECTING")]
    ELSE [Resolved(q, FailureReply) EXCEPT
             !.pc = "returned", !.failure = o,
             !.state = IF o = "refused" THEN "DONE" ELSE @,
             !.visited = IF o = "refused" THEN @ \o <<"CONNECTING", "DONE">> ELSE @]

\* The client and its connect (lines 563..583)
HttpRequestConnect(r, scripts) ==
    /\ HttpUp
    /\ r \in DOMAIN requests
    /\ requests[r].pc = "connect"
    /\ \E o \in ConnectOutcomes(HttpParse(requests[r].url)), script \in scripts :
        /\ requests' = [requests EXCEPT
                           ![r] = Connected(@, HttpParse(requests[r].url), o, script)]
        /\ httpManager' = [httpManager EXCEPT
                              !.request_count =
                                  IF o \in {"threw", "inprogress"} THEN @ ELSE @ - 1]
    /\ UNCHANGED <<pending_requests, httpLoop, seconds, connVars, codecVars, now, poolVars>>

\* The thread of eventLoop is about to read or write pending_requests in
\* processHttpRequests, which takes no lock.
LoopInList == httpLoop.pc \in {"collect", "check"}

\* pending_requests.push_back under pending_mutex (lines 585..588).  A
\* push_back that runs together with the loop's unlocked use of the list is a
\* data race: the request is linked, or the list is broken and the process
\* crashes.
HttpRequestPush(r) ==
    /\ HttpUp
    /\ r \in DOMAIN requests
    /\ requests[r].pc = "push"
    /\ \E o \in IF LoopInList THEN {"pushed", "crash"} ELSE {"pushed"} :
        IF o = "pushed"
        THEN /\ pending_requests' = Append(pending_requests, r)
             /\ requests' = [requests EXCEPT ![r].pc = "returned"]
             /\ UNCHANGED httpLoop
        ELSE /\ httpLoop' = [httpLoop EXCEPT !.pc = "terminated"]
             /\ UNCHANGED <<pending_requests, requests>>
    /\ UNCHANGED <<httpManager, seconds, connVars, codecVars, now, poolVars>>

\* eventLoop: while (running) (line 536)
HttpLoopWhile ==
    /\ httpLoop.pc = "while"
    /\ httpLoop' = [httpLoop EXCEPT
                       !.pc = IF httpManager.running THEN "collect" ELSE "exited"]
    /\ httpManager' = [httpManager EXCEPT
                          !.eventThread = IF httpManager.running THEN @ ELSE "finished"]
    /\ UNCHANGED <<pending_requests, requests, seconds, connVars, codecVars, now, poolVars>>

\* The requests processHttpRequests polls (lines 424..439)
Polled == SelectSeq(pending_requests,
                    LAMBDA r : /\ requests[r].socket_fd
                               /\ requests[r].state \in {"CONNECTING", "REQUEST_SENT"})

\* processHttpRequests up to the poll (lines 420..441)
HttpCollect ==
    /\ httpLoop.pc = "collect"
    /\ httpLoop' = [httpLoop EXCEPT
                       !.pc = IF Polled = <<>> THEN "idle" ELSE "poll",
                       !.fds = Polled]
    /\ UNCHANGED <<httpManager, pending_requests, requests, seconds,
                   connVars, codecVars, now, poolVars>>

\* poll reports the request: POLLOUT once the connect has ended, POLLIN
\* once there are bytes to read or the peer has closed
Ready(q) ==
    \/ q.state = "CONNECTING" /\ q.conn # "pending"
    \/ q.state = "REQUEST_SENT" /\ (q.rx # <<>> \/ q.eof)

\* poll(pollfds, 1000) (lines 443..444): it returns the ready requests, or 0
\* after its second when none is ready
HttpPoll ==
    /\ httpLoop.pc = "poll"
    /\ LET revents == {r \in RequestIds :
                          /\ \E k \in DOMAIN httpLoop.fds : httpLoop.fds[k] = r
                          /\ Ready(requests[r])}
       IN  httpLoop' = [httpLoop EXCEPT
                           !.pc = IF revents = {} THEN "check" ELSE "process",
                           !.revents = revents, !.i = 1]
    /\ UNCHANGED <<httpManager, pending_requests, requests, seconds,
                   connVars, codecVars, now, poolVars>>

\* The request the loop of lines 445..451 is at
Current == httpLoop.fds[httpLoop.i]

\* The loop over pollfds passes a request that is not ready, or ends
HttpProcessNext ==
    /\ httpLoop.pc = "process"
    /\ IF httpLoop.i > Len(httpLoop.fds)
       THEN httpLoop' = [httpLoop EXCEPT !.pc = "check"]
       ELSE /\ Current \notin httpLoop.revents
            /\ httpLoop' = [httpLoop EXCEPT !.i = @ + 1]
    /\ UNCHANGED <<httpManager, pending_requests, requests, seconds,
                   connVars, codecVars, now, poolVars>>

\* state = DONE, the socket closed, and the reply with status_code -1
Failed(q) ==
    [Resolved(q, FailureReply) EXCEPT !.state = "DONE", !.socket_fd = FALSE,
                                      !.visited = Append(@, "DONE")]

\* state = CONNECTED (line 245)
NowConnected(q) == [q EXCEPT !.state = "CONNECTED", !.visited = Append(@, "CONNECTED")]

\* process(can_read, can_write) of a connecting request that is writable
\* (lines 241..281) and sendRequest (200..238).  tls: the TLS setup of an
\* https request fails (no context or SSL_connect # 1); short: write sent
\* less than the request.
Processed(q, tls, short) ==
    IF q.conn = "error" THEN [Failed(q) EXCEPT !.failure = "socket"]
    ELSE IF q.use_ssl /\ tls = "fail" THEN [Failed(NowConnected(q)) EXCEPT !.failure = "tls"]
    ELSE IF short THEN [Failed(NowConnected(q)) EXCEPT !.failure = "write"]
    ELSE [NowConnected(q) EXCEPT !.state = "REQUEST_SENT",
                                 !.visited = Append(@, "REQUEST_SENT")]

HttpProcessConnect ==
    /\ httpLoop.pc = "process"
    /\ httpLoop.i <= Len(httpLoop.fds)
    /\ Current \in httpLoop.revents
    /\ requests[Current].state = "CONNECTING"
    /\ \E tls \in {"ok", "fail"}, short \in BOOLEAN :
        /\ requests' = [requests EXCEPT ![Current] = Processed(@, tls, short)]
        /\ httpManager' = [httpManager EXCEPT
                              !.request_count =
                                  IF Processed(requests[Current], tls, short).state = "DONE"
                                  THEN @ - 1 ELSE @]
    /\ httpLoop' = [httpLoop EXCEPT !.i = @ + 1]
    /\ UNCHANGED <<pending_requests, seconds, connVars, codecVars, now, poolVars>>

\* process(can_read, can_write) of a request whose request was sent and that
\* is readable: readResponse is entered (lines 282..284, 291..300)
HttpProcessRead ==
    /\ httpLoop.pc = "process"
    /\ httpLoop.i <= Len(httpLoop.fds)
    /\ Current \in httpLoop.revents
    /\ requests[Current].state = "REQUEST_SENT"
    /\ httpLoop' = [httpLoop EXCEPT !.pc = "read", !.response = NewResponse]
    /\ UNCHANGED <<httpManager, pending_requests, requests, seconds,
                   connVars, codecVars, now, poolVars>>

\* The read buffer of readResponse
ReadBufferSize == 4096

\* The readings of the dangling headers_part that a read can meet: both when
\* the read brings the terminator in, none to choose otherwise.
Readings(r, data) ==
    IF ~r.headers_parsed /\ FindStr(r.response_buffer \o data, HeaderTerminator, 0) # -1
    THEN BOOLEAN ELSE {TRUE}

\* readResponse: one read that returns bytes (lines 316, 325..378)
HttpRead ==
    /\ httpLoop.pc = "read"
    /\ requests[Current].rx # <<>>
    /\ LET rx == requests[Current].rx
           n == Min(Len(rx), ReadBufferSize)
       IN  /\ \E intact \in Readings(httpLoop.response, SubSeq(rx, 1, n)) :
                httpLoop' = [httpLoop EXCEPT
                                !.response = Appended(@, SubSeq(rx, 1, n), intact),
                                !.eagain = FALSE]
           /\ requests' = [requests EXCEPT ![Current].rx = SubSeq(rx, n + 1, Len(rx))]
    /\ UNCHANGED <<httpManager, pending_requests, seconds, connVars, codecVars, now, poolVars>>

\* The request after readResponse left its loop with the result e
Answered(q, e) ==
    IF e.kind = "reply"
    THEN [Resolved(q, e.reply[1]) EXCEPT !.state = "DONE", !.socket_fd = FALSE,
                                         !.visited = Append(@, "DONE")]
    ELSE q

\* readResponse: read fails with EAGAIN or EWOULDBLOCK on the empty, open
\* socket and the loop goes on with continue (lines 316..320); eagain tells
\* that the last read ended so.  The thread stays in readResponse, reading
\* again and again, until HttpRead or HttpReadEnd can be taken.
HttpReadAgain ==
    /\ httpLoop.pc = "read"
    /\ requests[Current].rx = <<>>
    /\ ~requests[Current].eof
    /\ ~httpLoop.eagain
    /\ httpLoop' = [httpLoop EXCEPT !.eagain = TRUE]
    /\ UNCHANGED <<httpManager, pending_requests, requests, seconds,
                   connVars, codecVars, now, poolVars>>

\* readResponse: read returns 0 at the peer's close, the loop is left and
\* the response ended (lines 324, 385..407).
HttpReadEnd ==
    /\ httpLoop.pc = "read"
    /\ requests[Current].rx = <<>>
    /\ requests[Current].eof
    /\ requests' = [requests EXCEPT ![Current] = Answered(@, EndOfResponse(httpLoop.response))]
    /\ httpManager' = [httpManager EXCEPT
                          !.request_count =
                              IF EndOfResponse(httpLoop.response).kind = "reply"
                              THEN @ - 1 ELSE @]
    /\ httpLoop' = IF EndOfResponse(httpLoop.response).kind = "throw"
                   THEN [httpLoop EXCEPT !.pc = "terminated", !.eagain = FALSE]
                   ELSE [httpLoop EXCEPT !.pc = "process", !.i = @ + 1,
                                         !.response = NewResponse, !.eagain = FALSE]
    /\ UNCHANGED <<pending_requests, seconds, connVars, codecVars, now, poolVars>>

\* The lifetime after which a pending request is timed out, in seconds
TimeoutSeconds == 30

\* elapsed.count() > 30 (lines 462..464)
Expired(q) == q.state # "DONE" /\ seconds - q.start_time > TimeoutSeconds

\* HttpClient::timeout() (lines 192..198)
TimedOut(q) == Failed(q)

\* processHttpRequests after the poll (lines 454..476): the requests that
\* are DONE are erased, the others are timed out and erased if they are older
\* than the limit
HttpCheck ==
    /\ httpLoop.pc = "check"
    /\ requests' = [r \in DOMAIN requests |->
                       IF (\E k \in DOMAIN pending_requests : pending_requests[k] = r)
                          /\ Expired(requests[r])
                       THEN TimedOut(requests[r]) ELSE requests[r]]
    /\ pending_requests' = SelectSeq(pending_requests,
                                     LAMBDA r : /\ requests[r].state # "DONE"
                                                /\ ~Expired(requests[r]))
    /\ httpManager' = [httpManager EXCEPT
                          !.request_count =
                              @ - Len(SelectSeq(pending_requests,
                                                LAMBDA r : Expired(requests[r])))]
    /\ httpLoop' = [httpLoop EXCEPT !.pc = "idle", !.fds = <<>>, !.revents = {}, !.i = 0]
    /\ UNCHANGED <<seconds, connVars, codecVars, now, poolVars>>

\* eventLoop: under pending_mutex, running = false when nothing is pending
\* and no request is counted (lines 538..543)
HttpLoopIdle ==
    /\ httpLoop.pc = "idle"
    /\ httpManager' = [httpManager EXCEPT
                          !.running = IF pending_requests = <<>>
                                         /\ httpManager.request_count = 0
                                      THEN FALSE ELSE @]
    /\ httpLoop' = [httpLoop EXCEPT !.pc = "while"]
    /\ UNCHANGED <<pending_requests, requests, seconds, connVars, codecVars, now, poolVars>>

(***************************************************************************)
(* The peers and the clock.                                                *)
(***************************************************************************)
\* The TCP connect of request r ends: accepted or with a socket error
PeerAccept(r) ==
    /\ HttpUp
    /\ r \in DOMAIN requests
    /\ requests[r].state = "CONNECTING"
    /\ requests[r].conn = "pending"
    /\ requests' = [requests EXCEPT ![r].conn = "ok"]
    /\ UNCHANGED <<httpManager, pending_requests, httpLoop, seconds,
                   connVars, codecVars, now, poolVars>>

PeerRefuse(r) ==
    /\ HttpUp
    /\ r \in DOMAIN requests
    /\ requests[r].state = "CONNECTING"
    /\ requests[r].conn = "pending"
    /\ requests' = [requests EXCEPT ![r].conn = "error"]
    /\ UNCHANGED <<httpManager, pending_requests, httpLoop, seconds,
                   connVars, codecVars, now, poolVars>>

\* The peer of request r sends the next chunk of its response
PeerSend(r) ==
    /\ HttpUp
    /\ r \in DOMAIN requests
    /\ requests[r].state = "REQUEST_SENT"
    /\ requests[r].script # <<>>
    /\ requests' = [requests EXCEPT
                       ![r].rx = @ \o Head(requests[r].script),
                       ![r].script = Tail(@)]
    /\ UNCHANGED <<httpManager, pending_requests, httpLoop, seconds,
                   connVars, codecVars, now, poolVars>>

\* The peer of request r closes the connection after its response
PeerClose(r) ==
    /\ HttpUp
    /\ r \in DOMAIN requests
    /\ requests[r].state = "REQUEST_SENT"
    /\ requests[r].script = <<>>
    /\ ~requests[r].eof
    /\ requests' = [requests EXCEPT ![r].eof = TRUE]
    /\ UNCHANGED <<httpManager, pending_requests, httpLoop, seconds,
                   connVars, codecVars, now, poolVars>>

\* A request waits for its peer and is younger than the limit.
Waiting ==
    \E r \in DOMAIN requests : /\ requests[r].state \in {"CONNECTING", "REQUEST_SENT"}
                                /\ ~Expired(requests[r])

\* The clock advances by d seconds while a request waits.
HttpTick(d) ==
    /\ HttpUp
    /\ Waiting
    /\ seconds + d <= MaxSeconds
    /\ seconds' = seconds + d
    /\ UNCHANGED <<httpManager, pending_requests, requests, httpLoop,
                   connVars, codecVars, now, poolVars>>

(***************************************************************************)
(* SpecHttpRead: one request to http://h/p and every response of           *)
(* HttpResponses, sent whole or in two chunks and followed by the close.   *)
(***************************************************************************)
HttpLoopNext ==
    \/ HttpLoopWhile
    \/ HttpCollect
    \/ HttpPoll
    \/ HttpProcessNext
    \/ HttpProcessConnect
    \/ HttpProcessRead
    \/ HttpRead
    \/ HttpReadAgain
    \/ HttpReadEnd
    \/ HttpCheck
    \/ HttpLoopIdle

\* The steps of the callers inside HttpRequest
HttpCallNext(scripts) ==
    \/ \E r \in RequestIds : HttpRequestCount(r)
    \/ \E r \in RequestIds : HttpRequestConnect(r, scripts)
    \/ \E r \in RequestIds : HttpRequestPush(r)

PeerNext ==
    \/ \E r \in RequestIds : PeerAccept(r)
    \/ \E r \in RequestIds : PeerRefuse(r)
    \/ \E r \in RequestIds : PeerSend(r)
    \/ \E r \in RequestIds : PeerClose(r)

InitHttp == ConnIdle /\ CodecIdle /\ PoolIdle

HttpReadNext ==
    \/ HttpRequestStart({UrlPlain}, OneRequest)
    \/ HttpCallNext(HttpScripts)
    \/ HttpLoopNext
    \/ PeerNext

SpecHttpRead == InitHttp /\ [][HttpReadNext]_vars

(***************************************************************************)
(* SpecHttp: up to MaxRequests requests on every URL of HttpUrls; the      *)
(* peers answer with one response in one chunk, refuse, or stall.          *)
(***************************************************************************)
\* One tick of the clock takes a request past the limit.
TickSeconds == TimeoutSeconds + 1

\* The peer's answer: 200 OK with the body "abcd" and no Content-Length,
\* whole or with its last byte in a second chunk.
PlainResponse == Response(OkLine, ServerHeader, DateHeader, -1, 4)

PlainScripts ==
    {[chunks |-> Split(PlainResponse.head \o PlainResponse.body, k), resp |-> PlainResponse] :
        k \in {0, Len(PlainResponse.head) + 3}}

HttpNext ==
    \/ HttpRequestStart(HttpUrls, MaxRequests)
    \/ HttpCallNext(PlainScripts)
    \/ HttpLoopNext
    \/ PeerNext
    \/ HttpTick(TickSeconds)

SpecHttp == InitHttp /\ [][HttpNext]_vars

(***************************************************************************)
(* SpecHttpFair: up to MaxRequests requests to http://h/p, whose peers     *)
(* accept or not, send the response in two chunks or a part of it or       *)
(* nothing, and close or not, with the scheduling of the threads: the      *)
(* thread of eventLoop and every thread inside HttpRequest take their next *)
(* step (the OS scheduler; poll returns after its second at the latest),   *)
(* and the clock advances.  Nothing is assumed of the peers.  The thread   *)
(* of eventLoop can take one step at most at any time, so that fairness is *)
(* stated step by step.                                                    *)
(***************************************************************************)
StallScripts == {s \in PlainScripts : Len(s.chunks) = 2}

HttpFairNext ==
    \/ HttpRequestStart({UrlPlain}, MaxRequests)
    \/ HttpCallNext(StallScripts)
    \/ HttpLoopNext
    \/ \E r \in RequestIds : PeerAccept(r)
    \/ \E r \in RequestIds : PeerSend(r)
    \/ \E r \in RequestIds : PeerClose(r)
    \/ HttpTick(TickSeconds)

HttpFairness ==
    /\ WF_vars(HttpLoopWhile) /\ WF_vars(HttpCollect) /\ WF_vars(HttpPoll)
    /\ WF_vars(HttpProcessNext) /\ WF_vars(HttpProcessConnect)
    /\ WF_vars(HttpProcessRead) /\ WF_vars(HttpRead) /\ WF_vars(HttpReadAgain)
    /\ WF_vars(HttpReadEnd)
    /\ WF_vars(HttpCheck) /\ WF_vars(HttpLoopIdle)
    /\ \A r \in RequestIds :
          WF_vars(HttpRequestCount(r) \/ HttpRequestConnect(r, StallScripts)
                  \/ HttpRequestPush(r))
    /\ WF_vars(HttpTick(TickSeconds))

SpecHttpFair == InitHttp /\ [][HttpFairNext]_vars /\ HttpFairness

(***************************************************************************)
(* Claims about HttpClient::readResponse, checked under SpecHttpRead.      *)
(***************************************************************************)
\* readResponse, having read bytes of the response of request r, leaves its
\* read loop at the peer's close.
ResponseEnds(r) ==
    /\ httpLoop.pc = "read"
    /\ httpLoop'.pc # "read"
    /\ Current = r
    /\ requests[r].resp.head # <<>>
    /\ httpLoop.response # NewResponse

\* Request r is Done with one reply: status 200 OK and the given body.
RepliedOk(q, body) ==
    /\ q.state = "DONE"
    /\ Len(q.promise) = 1
    /\ q.promise[1].status_code = 200
    /\ q.promise[1].status_message = <<"OK">>
    /\ q.promise[1].body = body

\* C25: when the response carries Content-Length: N and the N body bytes
\* have been received, the request is Done with a reply that has the status
\* code and message of the status line and exactly those N bytes as body.
C25_ContentLengthBody ==
    [][\A r \in RequestIds :
          (ResponseEnds(r) /\ requests[r].resp.declared # -1)
              => RepliedOk(requests'[r],
                           SubSeq(requests[r].resp.body, 1, requests[r].resp.declared))]_vars

\* The peer declared 2 bytes and sent "abcdef": the reply's body is "ef".
C25_Witness ==
    \E r \in DOMAIN requests :
        /\ requests[r].resp.declared = 2
        /\ requests[r].resp.body = BodyBytes(6)
        /\ RepliedOk(requests[r], <<"e", "f">>)

\* C26: when the response declares no Content-Length, the request is Done at
\* the peer's close with a reply whose body is all the bytes received after
\* the header terminator, whatever their number and the reads they came in.
C26_BodyUntilClose ==
    [][\A r \in RequestIds :
          (ResponseEnds(r) /\ requests[r].resp.declared = -1)
              => /\ requests'[r].state = "DONE"
                 /\ Len(requests'[r].promise) = 1
                 /\ requests'[r].promise[1].body = requests[r].resp.body]_vars

\* The peer sent "abcdef" without a Content-Length and closed: the reply's
\* body is "ef".
C26_Witness ==
    \E r \in DOMAIN requests :
        /\ requests[r].resp.declared = -1
        /\ requests[r].resp.body = BodyBytes(6)
        /\ requests[r].eof
        /\ RepliedOk(requests[r], <<"e", "f">>)

\* The reply is a 3xx response with a Location header.
IsRedirect(reply) ==
    /\ reply.status_code \in 300..399
    /\ \E k \in DOMAIN reply.headers : reply.headers[k][1] = <<"Location">>

\* C29: a 3xx response with a Location header is followed by a reconnect
\* under the same request, or, past the redirect limit, ends with a failure
\* reply: it is not what the request completes with.
C29_RedirectFollowed ==
    [][\A r \in RequestIds :
          (ResponseEnds(r) /\ requests[r].resp.head = ResponseHead(MovedLine, LocationHeader, ServerHeader))
              => \/ requests'[r].state = "CONNECTING" /\ requests'[r].promise = <<>>
                 \/ requests'[r].promise = <<FailureReply>>]_vars

\* The request is Done and its future holds the 301 reply itself.
C29_Witness ==
    \E r \in DOMAIN requests :
        /\ requests[r].state = "DONE"
        /\ Len(requests[r].promise) = 1
        /\ IsRedirect(requests[r].promise[1])

(***************************************************************************)
(* Claims about failures of HTTP requests, checked under SpecHttp.         *)
(***************************************************************************)
\* Request r is in pending_requests.
Pending(r) == \E k \in DOMAIN pending_requests : pending_requests[k] = r

\* Request r is over: its client is DONE, or HttpRequest returned without
\* putting it on the list and its socket is closed.
Finished(r) ==
    \/ requests[r].state = "DONE"
    \/ requests[r].pc = "returned" /\ ~requests[r].socket_fd /\ ~Pending(r)

\* C28: a request that met a transport failure (URL without host or with a
\* port that is no number, failed resolution or connect, socket error at
\* writability, failed TLS setup, short write) has exactly the reply with
\* status_code -1 and is over, from the failure on.
C28_FailureReply ==
    \A r \in DOMAIN requests :
        requests[r].failure # "" => requests[r].promise = <<FailureReply>> /\ Finished(r)

\* One request failed in connect() and one at the write of its request;
\* both hold the reply with status_code -1.
C28_Witness ==
    /\ Len(requests) = 2
    /\ requests[1].failure = "unresolved"
    /\ requests[2].failure = "write"
    /\ \A r \in {1, 2} : requests[r].promise = <<FailureReply>> /\ Finished(r)

(***************************************************************************)
(* Claims about the completion of HTTP requests, checked under             *)
(* SpecHttpFair.                                                           *)
(***************************************************************************)
\* The promise of no request is set twice.
AtMostOnce == \A r \in DOMAIN requests : Len(requests[r].promise) <= 1

\* C24: the future of every request that HttpRequest returned is resolved
\* exactly once: its promise is never set twice, and it is eventually set,
\* whatever the interleaving of the callers and the thread of eventLoop,
\* as long as the process lives.
C24_ResolvedOnce ==
    /\ []AtMostOnce
    /\ \A r \in RequestIds :
          (r \in DOMAIN requests /\ requests[r].pc = "returned")
              ~> (~HttpUp \/ (r \in DOMAIN requests /\ Len(requests[r].promise) = 1))

\* The second request was submitted after the first was answered and the
\* thread of eventLoop had returned; it is on the list, unresolved.
C24_Witness ==
    /\ Len(requests) = 2
    /\ requests[1].promise = <<[status_code |-> 200, status_message |-> <<"OK">>,
                                 headers |-> <<<<<<"Server">>, <<"x">>>>>>, body |-> <<>>]>>
    /\ httpLoop.pc = "exited"
    /\ Pending(2)
    /\ requests[2].promise = <<>>

\* C27: a request that is pending, not Done and older than 30 s is timed
\* out: it leaves the pending list, Done, with its socket closed and its
\* reply, whatever the peers do, as long as eventLoop runs and the process
\* lives.
C27_TimedOut ==
    \A r \in RequestIds :
        (r \in DOMAIN requests /\ Pending(r) /\ Expired(requests[r]) /\ httpManager.running)
            ~> \/ ~HttpUp
               \/ /\ r \in DOMAIN requests
                  /\ ~Pending(r)
                  /\ requests[r].state = "DONE"
                  /\ ~requests[r].socket_fd
                  /\ Len(requests[r].promise) = 1

\* The thread of eventLoop is inside readResponse of the first request,
\* whose peer has sent a part of its response and nothing since; both
\* requests are pending and older than 30 s.
C27_Witness ==
    /\ httpLoop.pc = "read"
    /\ Current = 1
    /\ requests[1].rx = <<>> /\ ~requests[1].eof /\ requests[1].script # <<>>
    /\ Pending(1) /\ Pending(2)
    /\ Expired(requests[1]) /\ Expired(requests[2])

(***************************************************************************)
(* Claims about ParsedUrl::parse, checked under SpecUrl.                   *)
(***************************************************************************)
\* What the parts u of a ws or wss URL are to be parsed to
ExpectedUrl(u) ==
    [host |-> u.host,
     port |-> IF u.port # <<>> THEN u.port
              ELSE IF u.scheme = <<"w", "s", "s">> THEN <<"4", "4", "3">> ELSE <<"8", "0">>,
     path |-> IF u.path # <<>> THEN u.path ELSE <<"/">>,
     ssl |-> u.scheme = <<"w", "s", "s">>]

\* C30: after connect(url) on a URL ws://host[:port][/path] or
\* wss://host[:port][/path], parsedUrl holds the host, the explicit port or
\* 80 / 443, the path or "/", and ssl exactly for wss, a ':' in the path
\* not being a port separator; for any other scheme the host is empty.
C30_ParsedUrl ==
    lastCall.op = "connect"
        => /\ \A u \in UrlParts : lastCall.arg = UrlText(u) => parsedUrl = ExpectedUrl(u)
           /\ lastCall.arg \in OtherUrls => parsedUrl.host = <<>>

\* connect("ws://h/a:b") has parsed host h, port 80 and path /a:b.
C30_Witness ==
    /\ lastCall.op = "connect"
    /\ lastCall.arg = <<"w", "s", ":", "/", "/", "h", "/", "a", ":", "b">>
    /\ parsedUrl = [host |-> <<"h">>, port |-> <<"8", "0">>,
                    path |-> <<"/", "a", ":", "b">>, ssl |-> FALSE]

(***************************************************************************)
(* Claims about the keepalive of the pool, checked under SpecPoolPing.     *)
(***************************************************************************)
\* The frames that the live connections have written for a keepalive.
KeepaliveFrames ==
    {f \in UNION {{manager.clients[i].wire[k] : k \in 1..Len(manager.clients[i].wire)}
                    : i \in Live(manager)} : f.size = KeepaliveSize}

\* C31: on a tick of the loop the keepalive round is made exactly if the ping
\* interval has elapsed since the last round; the round queues a keepalive for
\* the slot it passes exactly if the slot holds a connected connection, and at
\* its end the interval restarts at the time of the tick; every keepalive
\* written to a connection is a Ping frame.
C31_Keepalive ==
    /\ [][/\ (loop.pc = "ping" /\ loop'.pc # "ping") =>
                (loop'.pc = "ping_client"
                    <=> seconds - manager.lastPingTime >= PingInterval)
          /\ (loop.pc = "ping_client" /\ loop'.i = loop.i + 1) =>
                (manager'.enqueued = manager.enqueued + 1
                    <=> PoolIsConnected(manager, loop.i))
          /\ (loop.pc = "ping_client" /\ loop'.pc = "lock") =>
                manager'.lastPingTime = loop.now
          /\ manager'.enqueued # manager.enqueued => loop.pc = "ping_client"]_vars
    /\ [](\A f \in KeepaliveFrames : f.opCode = PING /\ f.fin)

\* Two keepalive rounds were made, PingInterval seconds apart, and a
\* connection has written the keepalive of both.
C31_Witness ==
    /\ manager.pinged = 2
    /\ manager.lastPingTime >= 2 * PingInterval
    /\ \E i \in Live(manager) :
          Len(SelectSeq(manager.clients[i].wire, LAMBDA f : f.size = KeepaliveSize)) = 2

(***************************************************************************)
(* Claims about the states of an HTTP request, checked under SpecHttp.     *)
(***************************************************************************)
\* enum State { IDLE, CONNECTING, CONNECTED, REQUEST_SENT, READING, DONE }
StateOrder ==
    <<"IDLE", "CONNECTING", "CONNECTED", "REQUEST_SENT", "READING", "DONE">>

StateRank(s) == CHOOSE k \in DOMAIN StateOrder : StateOrder[k] = s

\* The request got the response of its peer: no failure and no timeout.
HappyPath(q) == q.promise # <<>> /\ q.promise[1].status_code # -1

\* C32: a request that completed with the response of its peer has been
\* through CONNECTING, CONNECTED, REQUEST_SENT, READING and DONE, in this
\* order and once each; the state of no request ever moves backwards.
C32_StateOrder ==
    \A r \in DOMAIN requests :
        /\ HappyPath(requests[r]) =>
              requests[r].visited = Tail(StateOrder)
        /\ \A k \in 1..(Len(requests[r].visited) - 1) :
              StateRank(requests[r].visited[k]) < StateRank(requests[r].visited[k + 1])

\* Both requests completed with the response of their peer.
C32_Witness ==
    /\ Len(requests) = 2
    /\ \A r \in {1, 2} : HappyPath(requests[r]) /\ requests[r].state = "DONE"

\* A read of readResponse ends with EAGAIN or EWOULDBLOCK in this step.
WouldBlock == httpLoop.pc = "read" /\ ~httpLoop.eagain /\ httpLoop'.eagain

\* C33: when a read on the socket of a request would block before the
\* response is complete, process() returns: the thread leaves readResponse
\* and goes on with the next ready request of the tick, the request staying
\* as it is for a later tick.
C33_WouldBlockReturns ==
    [][WouldBlock =>
          /\ httpLoop'.pc = "process"
          /\ httpLoop'.i = httpLoop.i + 1
          /\ requests' = requests]_vars

\* The thread is in readResponse on request 1, whose peer has sent a part of
\* the response and holds the connection open, the last read having ended
\* with EAGAIN, while request 2 is pending and ready to be processed.
C33_Witness ==
    /\ httpLoop.pc = "read"
    /\ httpLoop.eagain
    /\ Current = 1
    /\ requests[1].script # <<>>
    /\ Len(requests) = 2
    /\ Pending(2)
    /\ Ready(requests[2])

(***************************************************************************)
(* Claims about the close code, checked under SpecClose.                   *)
(***************************************************************************)
\* The code and the reason that the unmasked payload p of a Close frame
\* carries: the first two bytes, high byte first, and the bytes after them.
CarriedClose(p) ==
    IF Len(p) < 2 THEN [code |-> 1000, reason |-> <<>>]
    ELSE [code |-> p[1] * 256 + p[2], reason |-> SubSeq(p, 3, Len(p))]

\* The step hands the close e on: on a Connected connection e becomes the
\* origin of the close, on a Closing one e is what the close callback gets.
HandsOn(e) ==
    /\ webSocket[1].state = "CONNECTED" =>
          webSocket'[1].state = "CLOSING" /\ webSocket'[1].origin = <<e>>
    /\ webSocket[1].state = "CLOSING" =>
          webSocket'[1].state = "CLOSED" /\ webSocket'[1].closes = Append(webSocket[1].closes, e)

\* C34: a received Close frame, masked or not, hands on the code and the
\* reason that its unmasked payload carries, 1000 and no reason for a payload
\* of fewer than two bytes; and a Close frame whose payload is the one a
\* local close(code, reason) builds hands on that code and reason.
C34_CloseCode ==
    [][(/\ webSocket # <<>>
        /\ lastCall'.op = "receive"
        /\ webSocket'[1].received = webSocket[1].received + 1)
        => /\ HandsOn(CarriedClose(lastCall'.arg))
           /\ \A a \in CloseArgs :
                 lastCall'.arg = NetworkCodeBytes(a.code) \o a.reason => HandsOn(a)]_vars

\* A masked Close frame with code 32769 and a reason was received on the
\* Connected connection, and a Close frame with the payload of
\* close(65535, "xyz") after it: the close callback got 65535 and "xyz".
C34_Witness ==
    /\ webSocket # <<>>
    /\ webSocket[1].state = "CLOSED"
    /\ webSocket[1].origin = <<[code |-> 32769, reason |-> <<65, 66, 67, 68, 69>>]>>
    /\ webSocket[1].closes = <<[code |-> 65535, reason |-> <<120, 121, 122>>]>>
    /\ webSocket[1].received = 2
    /\ webSocket[1].receiveBuffer = <<>>

\* The connection that got the given bytes in one appendReceiveData call
\* right after the handshake.
OneCall(bytes) ==
    AppendReceiveData(SetConnected(NewWebSocket(<<18, 52, 86, 120>>)), bytes,
                      <<18, 52, 86, 120>>)

\* The bytes of the receive buffer that processReceiveBuffer has not consumed.
Unconsumed(c) == SubSeq(c.receiveBuffer, c.readOffset + 1, Len(c.receiveBuffer))

\* C35: however the reads cut a stream of well-sequenced frames into chunks,
\* the message callbacks fired so far (payload and opcode, in order) are those
\* of one appendReceiveData call with all the bytes read so far, and so are
\* the unconsumed bytes kept in the receive buffer; the messages are a prefix
\* of the messages of the frames the peer wrote, and all of them once every
\* byte is read.
C35_ChunkedDelivery ==
    webSocket # <<>> =>
        LET c == webSocket[1]
            whole == OneCall(SubSeq(c.inbound, 1, c.taken))
        IN  /\ c.messages = whole.messages
            /\ Unconsumed(c) = Unconsumed(whole)
            /\ Len(c.messages) <= Len(c.ref.out)
            /\ c.messages = SubSeq(c.ref.out, 1, Len(c.messages))
            /\ c.taken = Len(c.inbound) => c.messages = c.ref.out

\* A Text fragment, a Continuation and a masked final Continuation were read
\* one byte per call, so that the reads ended inside every header, inside the
\* mask key and inside the payloads; the one message was delivered, and a
\* compaction happened on the way.
C35_Witness ==
    /\ webSocket # <<>>
    /\ webSocket[1].taken = 14
    /\ webSocket[1].received = 14
    /\ webSocket[1].messages = <<[payload |-> <<67, 70, 68, 69>>, opCode |-> TEXT]>>
    /\ webSocket[1].receiveBuffer = <<>>

\* The frame at the read offset, as decodeZeroCopy sees it.
HeadFrame(c) == DecodeZeroCopy(Unconsumed(c), Len(Unconsumed(c)))

\* The frame at the read offset is whole and is one that
\* handleFrameFragmented refuses: a Continuation with no fragment open, or
\* another frame with a fragment open.
Refused(c) ==
    /\ Unconsumed(c) # <<>>
    /\ HeadFrame(c).ok
    /\ (HeadFrame(c).opCode = CONTINUATION) = ~c.inFragment

\* The step leaves the connection object in place (a connect makes a new one,
\* which has received nothing).
SameConnection ==
    /\ webSocket # <<>>
    /\ webSocket' # <<>>
    /\ webSocket'[1].received >= webSocket[1].received

\* C36: once the received frames are badly sequenced, the refused frame is at
\* the read offset; and from a state where a refused frame is at the read
\* offset, every step on the connection leaves the messages delivered and the
\* open fragment as they are and keeps the unconsumed bytes, the refused frame
\* first, the bytes that arrive behind them: the frame is refused again and
\* nothing behind it is processed.
C36_StuckAfterViolation ==
    /\ [](webSocket # <<>> /\ webSocket[1].ref.bad => Refused(webSocket[1]))
    /\ [][(SameConnection /\ Refused(webSocket[1]))
          => /\ Refused(webSocket'[1])
             /\ webSocket'[1].messages = webSocket[1].messages
             /\ webSocket'[1].inFragment = webSocket[1].inFragment
             /\ webSocket'[1].fragmentBuffer = webSocket[1].fragmentBuffer
             /\ Len(Unconsumed(webSocket'[1])) >= Len(Unconsumed(webSocket[1]))
             /\ SubSeq(Unconsumed(webSocket'[1]), 1, Len(Unconsumed(webSocket[1])))
                    = Unconsumed(webSocket[1])
             /\ (webSocket'[1].received = webSocket[1].received + 1
                    => Len(Unconsumed(webSocket'[1])) > Len(Unconsumed(webSocket[1])))]_vars

\* Text "AB" was delivered, a Continuation with no fragment open was refused,
\* and the Text "AB" that arrived behind it made the connection look at the
\* Continuation again: the second close(1002) fired the close callback, and
\* both frames are still in the buffer.
C36_Witness ==
    /\ webSocket # <<>>
    /\ webSocket[1].received = 3
    /\ webSocket[1].messages = <<[payload |-> <<65, 66>>, opCode |-> TEXT]>>
    /\ webSocket[1].state = "CLOSED"
    /\ webSocket[1].closes = <<[code |-> 1002, reason |-> UnexpectedContinuation]>>
    /\ Unconsumed(webSocket[1]) =
           PeerFrame(Frame(CONTINUATION, TRUE, <<69, 70>>, <<>>))
               \o PeerFrame(Frame(TEXT, TRUE, <<65, 66>>, <<>>))

\* C37: a send() call on a connection whose state is not CONNECTED returns
\* false and changes nothing of the connection: no block is written, and the
\* state, the send buffer and the mask stay as they are, whatever the opcode
\* and the message.
C37_SendRefused ==
    [][(/\ webSocket # <<>>
        /\ lastCall'.op = "send"
        /\ webSocket[1].state # "CONNECTED")
        => /\ webSocket'[1].sendSeen # <<>>
           /\ ~webSocket'[1].sendSeen[1].ok
           /\ webSocket'[1].sent = webSocket[1].sent
           /\ webSocket'[1].sendBuffer = webSocket[1].sendBuffer
           /\ webSocket'[1].state = webSocket[1].state
           /\ webSocket' = <<[webSocket[1] EXCEPT !.sendSeen = webSocket'[1].sendSeen]>>]_vars

\* A connection that close(1000) took to Closing refused a Ping, and had
\* written one block while it was Connected.
C37_Witness ==
    /\ webSocket # <<>>
    /\ lastCall.op = "send"
    /\ webSocket[1].state = "CLOSING"
    /\ webSocket[1].origin = <<[code |-> 1000, reason |-> <<>>]>>
    /\ webSocket[1].sendSeen = <<[size |-> 0, opCode |-> PING, ok |-> FALSE]>>
    /\ Len(webSocket[1].sent) = 1

\* C38: the running flag is set, and the thread object assigned, only when
\* the previous thread has been joined and no removeClient is between
\* running = false and the end of its join.
C38_OneThread ==
    [][(manager'.running /\ ~manager.running)
        => /\ ~manager.eventThread
           /\ \A t \in Threads : callers[t].pc # "rm_join"]_vars

\* One thread is in removeClient before its join, the other has set running
\* in addClient and assigned to the thread object, which was still joinable.
C38_Witness ==
    /\ proc = "terminated"
    /\ manager.running
    /\ manager.eventThread
    /\ manager.refCount = 1
    /\ \E t \in Threads, u \in Threads :
          callers[t].pc = "rm_join" /\ callers[u].pc = "add_start"

\* The thread of eventLoop is inside its loop and has not been told to stop.
HttpThreadDrives == httpManager.running /\ httpLoop.pc \notin {"none", "exited"}

\* C39: while a request is in pending_requests, the event thread is running
\* and has not stopped itself.
C39_PendingDriven ==
    (HttpUp /\ pending_requests # <<>>) => HttpThreadDrives

\* The first request was answered and the thread stopped itself; the second
\* HttpRequest found refCount at 1, started no thread and pushed its request,
\* which is pending with no thread.
C39_Witness ==
    /\ Len(requests) = 2
    /\ requests[1].state = "DONE"
    /\ Len(requests[1].promise) = 1
    /\ requests[1].promise[1].status_code = 200
    /\ httpManager.refCount = 2
    /\ ~httpManager.running
    /\ httpLoop.pc = "exited"
    /\ pending_requests = <<2>>
    /\ requests[2].pc = "returned"

\* C40: pending_requests is changed only by steps that hold pending_mutex,
\* which of the steps that change it is the push_back of HttpRequest alone,
\* and no push_back is made while the event thread is at an access of the
\* list in processHttpRequests.
C40_ListUnderMutex ==
    [][/\ pending_requests' # pending_requests
            => \E r \in DOMAIN requests :
                  /\ requests[r].pc = "push"
                  /\ pending_requests' = Append(pending_requests, r)
       /\ (\E r \in DOMAIN requests :
              /\ requests[r].pc = "push"
              /\ requests'[r].pc # "push" \/ httpLoop'.pc = "terminated")
            => ~LoopInList]_vars

\* A push_back ran together with the loop's pass over the list, in which a
\* request was pending already, and broke the list.
C40_Witness ==
    /\ httpLoop.pc = "terminated"
    /\ pending_requests # <<>>
    /\ \E r \in DOMAIN requests : requests[r].pc = "push"

====
